---- MODULE Spec2Model ----
(***************************************************************************)
(* The 4-dimensional projective geometric algebra of src/math/rotor.rs and *)
(* src/math/point.rs: the Rotor (motor) type, its product, reverse,        *)
(* magnitude, constructors and the point transform.                        *)
(*                                                                         *)
(* The source computes in f32, and so does this module: a number is an f32 *)
(* value and every operation rounds as IEEE 754 binary32 does.             *)
(* The source also has src/main.rs, the event loop that drives the game.   *)
(***************************************************************************)
EXTENDS Integers, Sequences, FiniteSets, TLC

(***************************************************************************)
(* f32 arithmetic.  An f32 is << sign, m, e >>: sign is 0 or 1, and the    *)
(* finite nonzero values are (-1)^sign * m * 2^e with m odd, m < 2^24,     *)
(* e >= -149 and m * 2^e < 2^128.  +0.0 is << 0, 0, 0 >> and -0.0 is       *)
(* << 1, 0, 0 >>; the infinities are << sign, 1, 128 >> and NaN is         *)
(* << 0, 0, 128 >>.  Every operation rounds its exact result once, to the  *)
(* nearest f32 with ties to the even mantissa, as IEEE 754 binary32 does.  *)
(***************************************************************************)
Abs(n) == IF n < 0 THEN -n ELSE n

Max(a, b) == IF a >= b THEN a ELSE b

MantBits == 24     \* bits of an f32 significand
MinExp == -149     \* exponent of the smallest subnormal, 2^-149
InfExp == 128      \* 2^128 and every greater magnitude round to infinity

Pow2(k) == 2 ^ k

\* the number of bits of n, for 0 <= n < 2^31
RECURSIVE BitLen(_)
BitLen(n) ==
  IF n >= 65536 THEN 16 + BitLen(n \div 65536)
  ELSE IF n >= 256 THEN 8 + BitLen(n \div 256)
  ELSE IF n >= 16 THEN 4 + BitLen(n \div 16)
  ELSE IF n >= 4 THEN (IF n >= 8 THEN 4 ELSE 3)
  ELSE IF n >= 2 THEN 2 ELSE n

Zero == << 0, 0, 0 >>
NegZero == << 1, 0, 0 >>
Inf == << 0, 1, InfExp >>
NegInf == << 1, 1, InfExp >>
NaN == << 0, 0, InfExp >>

IsNaN(x) == x[2] = 0 /\ x[3] = InfExp

IsInf(x) == x[2] = 1 /\ x[3] = InfExp

IsZero(x) == x[2] = 0 /\ x[3] = 0

IsFinite(x) == x[3] # InfExp

\* the f32 (-1)^sign * m * 2^e for m > 0 that needs no rounding: the
\* mantissa made odd, and infinity from 2^128 on
RECURSIVE Normal(_, _, _)
Normal(sign, m, e) ==
  IF m % 2 = 0
  THEN IF m % 256 = 0 THEN Normal(sign, m \div 256, e + 8) ELSE Normal(sign, m \div 2, e + 1)
  ELSE IF BitLen(m) + e > InfExp THEN << sign, 1, InfExp >> ELSE << sign, m, e >>

\* keep * 2^e with rest of the bits dropped below it, half being the weight
\* of the first of them: up when more than half is dropped, and on a tie to
\* the even mantissa
RoundCut(sign, keep, rest, half, e) ==
  IF rest > half \/ (rest = half /\ keep % 2 = 1) THEN Normal(sign, keep + 1, e)
  ELSE IF keep = 0 THEN << sign, 0, 0 >>
  ELSE Normal(sign, keep, e)

\* m * 2^e, of len bits, with its last drop bits dropped
RoundDrop(sign, m, e, len, drop) ==
  IF drop = 0 THEN Normal(sign, m, e)
  ELSE IF drop > len THEN << sign, 0, 0 >>
  ELSE IF drop = len THEN RoundCut(sign, 0, m, Pow2(len - 1), e + drop)
  ELSE RoundCut(sign, m \div Pow2(drop), m % Pow2(drop), Pow2(drop - 1), e + drop)

\* the bits below 2^-149 and below the 24 leading bits are dropped
RoundLen(sign, m, e, len) ==
  RoundDrop(sign, m, e, len, Max(Max(len - MantBits, MinExp - e), 0))

\* the f32 nearest to (-1)^sign * m * 2^e for 0 <= m < 2^31, ties to even
Round(sign, m, e) == IF m = 0 THEN << sign, 0, 0 >> ELSE RoundLen(sign, m, e, BitLen(m))

\* the f32 of the integer n
Int2F32(n) == Round(IF n < 0 THEN 1 ELSE 0, Abs(n), 0)

\* floor(r * 2^t / d) and whether a remainder is left, for r < d < 2^24,
\* by long division, 6 bits at a step; q holds the quotient so far
RECURSIVE DivBits(_, _, _, _)
DivBits(r, d, q, t) ==
  IF t = 0 THEN << q, IF r = 0 THEN 0 ELSE 1 >>
  ELSE IF t >= 6 THEN DivBits((r * 64) % d, d, q * 64 + ((r * 64) \div d), t - 6)
  ELSE DivBits((r * Pow2(t)) % d, d, q * Pow2(t) + ((r * Pow2(t)) \div d), 0)

\* q[1] * 2^(e + 1), with one more bit set when the remainder q[2] is not 0
RoundBits(sign, q, e) == Round(sign, 2 * q[1] + q[2], e)

\* t bits of the quotient n / d after the binary point
QuotientBits(sign, n, d, e, t) == RoundBits(sign, DivBits(n % d, d, n \div d, t), e - t - 1)

\* the f32 nearest to (-1)^sign * (n / d) * 2^e for 0 < n, d < 2^24: 27 or
\* 28 bits of the quotient, and one more bit set when there is a remainder
Quotient(sign, n, d, e) == QuotientBits(sign, n, d, e, 27 + BitLen(d) - BitLen(n))

\* the f32 nearest to the rational n / d (d > 0), as an f32 literal is read
Rat(n, d) == IF n = 0 THEN Zero ELSE Quotient(IF n < 0 THEN 1 ELSE 0, Abs(n), d, 0)

One == << 0, 1, 0 >>
Two == << 0, 1, 1 >>
Half == << 0, 1, -1 >>

RNeg(x) == IF IsNaN(x) THEN NaN ELSE << 1 - x[1], x[2], x[3] >>

RAbs(x) == << 0, x[2], x[3] >>

\* the f32 nearest to the integer sum * 2^e; a sum of 0 is +0.0
RoundSum(sum, e) == Round(IF sum < 0 THEN 1 ELSE 0, Abs(sum), e)

\* the signed mantissa of x
Signed(x) == IF x[1] = 1 THEN -x[2] ELSE x[2]

\* x + y where the leading bit of x lies far above y, which then only
\* decides how x is rounded: x is held in 29 bits, the last one 0, and y is
\* cut to the bits at that scale, one more bit recording that something of
\* y lies below.  k is the shift of x and sh that of y.
AddFar(x, y, k, sh) ==
  Round(x[1],
        2 * x[2] * Pow2(k) +
          (IF x[1] = y[1] THEN 1 ELSE -1) *
          (IF sh >= 25 THEN 1 ELSE 2 * (y[2] \div Pow2(sh)) + 1),
        y[3] + sh - 1)

\* x + y for x[3] - y[3] = d >= 0 and x[2] of len bits: the sum of the
\* mantissas at the scale of y when it has at most 30 bits
AddAt(x, y, d, len) ==
  IF len + d <= 29 THEN RoundSum(Signed(x) * Pow2(d) + Signed(y), y[3])
  ELSE AddFar(x, y, 28 - len, d - (28 - len))

\* x + y for finite nonzero x and y with x[3] >= y[3]
AddAligned(x, y) == AddAt(x, y, x[3] - y[3], BitLen(x[2]))

\* f32 +
RAdd(x, y) ==
  IF IsNaN(x) \/ IsNaN(y) THEN NaN
  ELSE IF IsInf(x) THEN (IF IsInf(y) /\ x[1] # y[1] THEN NaN ELSE x)
  ELSE IF IsInf(y) THEN y
  ELSE IF x[2] = 0 THEN (IF y[2] = 0 THEN (IF x[1] = 1 /\ y[1] = 1 THEN NegZero ELSE Zero) ELSE y)
  ELSE IF y[2] = 0 THEN x
  ELSE IF x[3] >= y[3] THEN AddAligned(x, y) ELSE AddAligned(y, x)

\* f32 -
RSub(x, y) == RAdd(x, RNeg(y))

\* hi * 2^24 + lo cut to its leading 30 bits when k = 30 - BitLen(hi) < 24,
\* the last bit set when a bit below is, with the exponent of its last bit
CutAt(hi, lo, k) ==
  IF k >= 24 THEN << hi * 16777216 + lo, 0 >>
  ELSE << hi * Pow2(k) + (lo \div Pow2(24 - k)) +
            (IF lo % Pow2(24 - k) # 0 /\ (hi * Pow2(k) + (lo \div Pow2(24 - k))) % 2 = 0
             THEN 1 ELSE 0),
          24 - k >>

\* top * 2^24 + low, for low < 2^25
Join(top, low) == CutAt(top + (low \div 16777216), low % 16777216, 30 - BitLen(top + (low \div 16777216)))

\* top * 2^24 + mid * 2^12 + bot
Carry(top, mid, bot) == Join(top + (mid \div 4096), bot + (mid % 4096) * 4096)

\* (a1 * 2^12 + b1) * (a2 * 2^12 + b2)
Limbs(a1, b1, a2, b2) == Carry(a1 * a2, a1 * b2 + a2 * b1, b1 * b2)

\* m1 * m2 for m1, m2 < 2^24 in at most 30 bits, and the exponent of its
\* last bit: the product is formed from the 12-bit halves of m1 and m2
Product(m1, m2) ==
  IF m1 < 32768 /\ m2 < 32768 THEN << m1 * m2, 0 >>
  ELSE Limbs(m1 \div 4096, m1 % 4096, m2 \div 4096, m2 % 4096)

\* p[1] * 2^(e + p[2])
RoundProduct(sign, p, e) == Round(sign, p[1], e + p[2])

\* x * y with the sign of the product
MulSigned(sign, x, y) ==
  IF IsNaN(x) \/ IsNaN(y) THEN NaN
  ELSE IF IsInf(x) \/ IsInf(y)
       THEN IF x[2] = 0 \/ y[2] = 0 THEN NaN ELSE << sign, 1, InfExp >>
  ELSE IF x[2] = 0 \/ y[2] = 0 THEN << sign, 0, 0 >>
  ELSE RoundProduct(sign, Product(x[2], y[2]), x[3] + y[3])

\* f32 *
RMul(x, y) == MulSigned(IF x[1] = y[1] THEN 0 ELSE 1, x, y)

\* t[1] + t[2] + ... + t[Len(t)], added from left to right
RECURSIVE RSumFrom(_, _, _)
RSumFrom(t, k, acc) == IF k > Len(t) THEN acc ELSE RSumFrom(t, k + 1, RAdd(acc, t[k]))

RSum(t) == RSumFrom(t, 2, t[1])

\* the square root of n * 4^t (n > 0) to its integer part, digit by digit:
\* root and rem are the root and remainder of the pairs of bits taken so
\* far, pairs the pairs of bits of n still to take, t the zero pairs after
RECURSIVE RootBits(_, _, _, _, _), RootStep(_, _, _, _, _)
RootBits(n, pairs, t, root, rem) ==
  IF pairs = 0 /\ t = 0 THEN << root, IF rem = 0 THEN 0 ELSE 1 >>
  ELSE IF pairs > 0
       THEN RootStep(n, pairs - 1, t, root, 4 * rem + ((n \div Pow2(2 * (pairs - 1))) % 4))
       ELSE RootStep(n, 0, t - 1, root, 4 * rem)

\* the next bit of the root: 1 when 4 * root + 1 fits in r
RootStep(n, pairs, t, root, r) ==
  IF r >= 4 * root + 1 THEN RootBits(n, pairs, t, 2 * root + 1, r - (4 * root + 1))
  ELSE RootBits(n, pairs, t, 2 * root, r)

\* the root of n * 2^e for e even: 26 of its bits
RootOf(n, e, pairs) == RoundBits(0, RootBits(n, pairs, 26 - pairs, 0, 0), (e \div 2) - (26 - pairs) - 1)

\* the root of n * 2^e for e even
RootEven(n, e) == RootOf(n, e, (BitLen(n) + 1) \div 2)

\* f32::sqrt: NaN for NaN and for what is below zero, the argument for a
\* zero and +inf, and else the nearest f32 to the root, from 26 of its bits
\* and one more set when the root is not exact
RSqrt(x) ==
  IF IsNaN(x) THEN NaN
  ELSE IF x[2] = 0 THEN x
  ELSE IF x[1] = 1 THEN NaN
  ELSE IF IsInf(x) THEN x
  ELSE IF x[3] % 2 = 0 THEN RootEven(x[2], x[3])
  ELSE RootEven(2 * x[2], x[3] - 1)

\* f32::recip, 1.0 / x
RRecip(x) ==
  IF IsNaN(x) THEN NaN
  ELSE IF IsInf(x) THEN << x[1], 0, 0 >>
  ELSE IF x[2] = 0 THEN << x[1], 1, InfExp >>
  ELSE Quotient(x[1], 1, x[2], -x[3])

\* x == y of f32: -0.0 == 0.0, and NaN equals nothing
REq(x, y) == ~IsNaN(x) /\ ~IsNaN(y) /\ (x = y \/ (x[2] = 0 /\ y[2] = 0))

\* the exponent above the leading bit of v
TopBit(v) == BitLen(v[2]) + v[3]

\* the mantissa of v with its leading bit at bit 24
Lead(v) == v[2] * Pow2(MantBits - BitLen(v[2]))

\* |a| < |b| for finite nonzero a and b, and for b an infinity
Below(a, b) == TopBit(a) < TopBit(b) \/ (TopBit(a) = TopBit(b) /\ Lead(a) < Lead(b))

\* x < y of f32
RLess(x, y) ==
  /\ ~IsNaN(x) /\ ~IsNaN(y)
  /\ IF x[2] = 0 THEN y[2] # 0 /\ y[1] = 0
     ELSE IF y[2] = 0 THEN x[1] = 1
     ELSE IF x[1] # y[1] THEN x[1] = 1
     ELSE IF x[1] = 0 THEN Below(x, y) ELSE Below(y, x)

(***************************************************************************)
(* struct Rotor: a record of 16 numbers.                                   *)
(***************************************************************************)
Fields ==
  << "s", "e01", "e02", "e03", "e04", "e12", "e13", "e14", "e23", "e24", "e34",
     "e0123", "e0124", "e0134", "e0234", "e1234" >>

FieldSet == { Fields[n] : n \in 1..Len(Fields) }

IDENTITY ==
  [ s |-> One, e01 |-> Zero, e02 |-> Zero, e03 |-> Zero, e04 |-> Zero,
    e12 |-> Zero, e13 |-> Zero, e14 |-> Zero, e23 |-> Zero, e24 |-> Zero, e34 |-> Zero,
    e0123 |-> Zero, e0124 |-> Zero, e0134 |-> Zero, e0234 |-> Zero, e1234 |-> Zero ]

\* translation with the sign of e04 slipped
translation_SignSlip(offset) ==
  LET x == offset[1]
      y == offset[2]
      z == offset[3]
      w == offset[4]
  IN  [ s |-> One,
        e01 |-> RMul(w, Half),
        e02 |-> RMul(z, RNeg(Half)),
        e03 |-> RMul(y, Half),
        e04 |-> RMul(x, Half),
        e12 |-> Zero, e13 |-> Zero, e14 |-> Zero, e23 |-> Zero, e24 |-> Zero, e34 |-> Zero,
        e0123 |-> Zero, e0124 |-> Zero, e0134 |-> Zero, e0234 |-> Zero, e1234 |-> Zero ]

translation(offset) ==
  LET x == offset[1]
      y == offset[2]
      z == offset[3]
      w == offset[4]
  IN  [ s |-> One,
        e01 |-> RMul(w, Half),
        e02 |-> RMul(z, RNeg(Half)),
        e03 |-> RMul(y, Half),
        e04 |-> RMul(x, RNeg(Half)),
        e12 |-> Zero, e13 |-> Zero, e14 |-> Zero, e23 |-> Zero, e24 |-> Zero, e34 |-> Zero,
        e0123 |-> Zero, e0124 |-> Zero, e0134 |-> Zero, e0234 |-> Zero, e1234 |-> Zero ]

(***************************************************************************)
(* f32::sin_cos, the pair << sin, cos >>: the values the sinf and cosf of   *)
(* the C library (glibc) return.  It is tabulated on the angles given to   *)
(* it here and on a grid of further angles: the multiples of 1/16 up to 2, *)
(* of pi/8 up to 2 pi, and the steps of Game::cursor.                      *)
(***************************************************************************)
SinCos(x) ==
  CASE x = <<1, 13176795, -21>> -> << <<1, 6151831, -45>>, <<0, 1, 0>> >>
    [] x = <<1, 11529695, -21>> -> << <<0, 11863285, -24>>, <<0, 11863281, -24>> >>
    [] x = <<1, 2470649, -19>> -> << <<0, 1, 0>>, <<0, 6713111, -49>> >>
    [] x = <<1, 16470993, -22>> -> << <<0, 5931641, -23>>, <<1, 2965821, -22>> >>
    [] x = <<1, 13176795, -22>> -> << <<0, 6151831, -46>>, <<1, 1, 0>> >>
    [] x = <<1, 11529695, -22>> -> << <<1, 12840727, -25>>, <<1, 7750063, -23>> >>
    [] x = <<1, 2470649, -20>> -> << <<1, 11863283, -24>>, <<1, 11863283, -24>> >>
    [] x = <<1, 4867063, -21>> -> << <<1, 3068925, -22>>, <<1, 11436003, -24>> >>
    [] x = <<1, 4342775, -21>> -> << <<1, 14723391, -24>>, <<1, 2010857, -22>> >>
    [] x = <<1, 1, 1>> -> << <<1, 15255479, -24>>, <<1, 13963571, -25>> >>
    [] x = <<1, 16470993, -23>> -> << <<1, 15500127, -24>>, <<1, 3210181, -23>> >>
    [] x = <<1, 15, -3>> -> << <<1, 16006903, -24>>, <<1, 10050677, -25>> >>
    [] x = <<1, 15273947, -23>> -> << <<1, 16255653, -24>>, <<1, 8301501, -25>> >>
    [] x = <<1, 7, -2>> -> << <<1, 16508545, -24>>, <<1, 5980945, -25>> >>
    [] x = <<1, 13, -3>> -> << <<1, 261759, -18>>, <<1, 1817883, -25>> >>
    [] x = <<1, 13180989, -23>> -> << <<1, 8388607, -23>>, <<1, 8590063, -34>> >>
    [] x = <<1, 13176795, -23>> -> << <<1, 1, 0>>, <<1, 6151831, -47>> >>
    [] x = <<1, 3, -1>> -> << <<1, 16735189, -24>>, <<0, 4747093, -26>> >>
    [] x = <<1, 11, -3>> -> << <<1, 16456655, -24>>, <<0, 3263969, -24>> >>
    [] x = <<1, 11079643, -23>> -> << <<1, 16255653, -24>>, <<0, 4150749, -24>> >>
    [] x = <<1, 5, -2>> -> << <<1, 1990165, -21>>, <<0, 10580463, -25>> >>
    [] x = <<1, 2470649, -21>> -> << <<1, 7750063, -23>>, <<0, 12840725, -25>> >>
    [] x = <<1, 9, -3>> -> << <<1, 7568769, -23>>, <<0, 14467883, -25>> >>
    [] x = <<1, 8982491, -23>> -> << <<1, 14723393, -24>>, <<0, 8043425, -24>> >>
    [] x = <<1, 1, 0>> -> << <<1, 3529385, -22>>, <<0, 141637, -18>> >>
    [] x = <<1, 15, -4>> -> << <<1, 13523797, -24>>, <<0, 4964421, -23>> >>
    [] x = <<1, 7, -3>> -> << <<1, 12877243, -24>>, <<0, 10754143, -24>> >>
    [] x = <<1, 6885339, -23>> -> << <<1, 12275703, -24>>, <<0, 357375, -19>> >>
    [] x = <<1, 13, -4>> -> << <<1, 3045101, -22>>, <<0, 11537449, -24>> >>
    [] x = <<1, 13176795, -24>> -> << <<1, 11863283, -24>>, <<0, 11863283, -24>> >>
    [] x = <<1, 12591301, -24>> -> << <<1, 11442137, -24>>, <<0, 6134991, -23>> >>
    [] x = <<1, 3, -2>> -> << <<1, 11436001, -24>>, <<0, 6137851, -23>> >>
    [] x = <<1, 11, -4>> -> << <<1, 2661735, -22>>, <<0, 12966019, -24>> >>
    [] x = <<1, 5, -3>> -> << <<1, 9816303, -24>>, <<0, 13605703, -24>> >>
    [] x = <<1, 9, -4>> -> << <<1, 4473667, -23>>, <<0, 7096129, -23>> >>
    [] x = <<1, 8396997, -24>> -> << <<1, 8050787, -24>>, <<0, 1839921, -21>> >>
    [] x = <<1, 1, -1>> -> << <<1, 4021713, -23>>, <<0, 230053, -18>> >>
    [] x = <<1, 7, -4>> -> << <<1, 1777027, -22>>, <<0, 1899629, -21>> >>
    [] x = <<1, 13176795, -25>> -> << <<1, 6420363, -24>>, <<0, 7750063, -23>> >>
    [] x = <<1, 3, -3>> -> << <<1, 12290067, -25>>, <<0, 15611327, -24>> >>
    [] x = <<1, 5, -4>> -> << <<1, 10315925, -25>>, <<0, 15964661, -24>> >>
    [] x = <<1, 8405385, -25>> -> << <<1, 4158877, -24>>, <<0, 2031697, -21>> >>
    [] x = <<1, 1, -2>> -> << <<1, 16602999, -26>>, <<0, 16255653, -24>> >>
    [] x = <<1, 3, -4>> -> << <<1, 6254657, -25>>, <<0, 16483167, -24>> >>
    [] x = <<1, 1, -3>> -> << <<1, 16733559, -27>>, <<0, 16646315, -24>> >>
    [] x = <<1, 1, -4>> -> << <<1, 16766295, -28>>, <<0, 16744459, -24>> >>
    [] x = <<1, 8589935, -31>> -> << <<1, 1073739, -28>>, <<0, 8388541, -23>> >>
    [] x = <<1, 6442451, -31>> -> << <<1, 12884883, -32>>, <<0, 16777141, -24>> >>
    [] x = <<1, 8589935, -32>> -> << <<1, 8589929, -32>>, <<0, 8388591, -23>> >>
    [] x = <<1, 6442451, -32>> -> << <<1, 12884897, -33>>, <<0, 16777197, -24>> >>
    [] x = <<1, 8589935, -33>> -> << <<1, 4294967, -32>>, <<0, 2097151, -21>> >>
    [] x = <<1, 8589935, -34>> -> << <<1, 8589935, -34>>, <<0, 8388607, -23>> >>
    [] x = <<0, 0, 0>> -> << <<0, 0, 0>>, <<0, 1, 0>> >>
    [] x = <<1, 0, 0>> -> << <<1, 0, 0>>, <<0, 1, 0>> >>
    [] x = <<0, 8589935, -34>> -> << <<0, 8589935, -34>>, <<0, 8388607, -23>> >>
    [] x = <<0, 8589935, -33>> -> << <<0, 4294967, -32>>, <<0, 2097151, -21>> >>
    [] x = <<0, 6442451, -32>> -> << <<0, 12884897, -33>>, <<0, 16777197, -24>> >>
    [] x = <<0, 8589935, -32>> -> << <<0, 8589929, -32>>, <<0, 8388591, -23>> >>
    [] x = <<0, 6442451, -31>> -> << <<0, 12884883, -32>>, <<0, 16777141, -24>> >>
    [] x = <<0, 8589935, -31>> -> << <<0, 1073739, -28>>, <<0, 8388541, -23>> >>
    [] x = <<0, 1, -4>> -> << <<0, 16766295, -28>>, <<0, 16744459, -24>> >>
    [] x = <<0, 1, -3>> -> << <<0, 16733559, -27>>, <<0, 16646315, -24>> >>
    [] x = <<0, 3, -4>> -> << <<0, 6254657, -25>>, <<0, 16483167, -24>> >>
    [] x = <<0, 8371831, -25>> -> << <<0, 8285243, -25>>, <<0, 8128863, -23>> >>
    [] x = <<0, 1, -2>> -> << <<0, 16602999, -26>>, <<0, 16255653, -24>> >>
    [] x = <<0, 5, -4>> -> << <<0, 10315925, -25>>, <<0, 15964661, -24>> >>
    [] x = <<0, 3, -3>> -> << <<0, 12290067, -25>>, <<0, 15611327, -24>> >>
    [] x = <<0, 13176795, -25>> -> << <<0, 6420363, -24>>, <<0, 7750063, -23>> >>
    [] x = <<0, 7, -4>> -> << <<0, 1777027, -22>>, <<0, 1899629, -21>> >>
    [] x = <<0, 16760439, -25>> -> << <<0, 8036063, -24>>, <<0, 3681853, -22>> >>
    [] x = <<0, 1, -1>> -> << <<0, 4021713, -23>>, <<0, 230053, -18>> >>
    [] x = <<0, 9, -4>> -> << <<0, 4473667, -23>>, <<0, 7096129, -23>> >>
    [] x = <<0, 5, -3>> -> << <<0, 9816303, -24>>, <<0, 13605703, -24>> >>
    [] x = <<0, 11, -4>> -> << <<0, 2661735, -22>>, <<0, 12966019, -24>> >>
    [] x = <<0, 12574523, -24>> -> << <<0, 11429861, -24>>, <<0, 12281419, -24>> >>
    [] x = <<0, 3, -2>> -> << <<0, 11436001, -24>>, <<0, 6137851, -23>> >>
    [] x = <<0, 13176795, -24>> -> << <<0, 11863283, -24>>, <<0, 11863283, -24>> >>
    [] x = <<0, 13, -4>> -> << <<0, 3045101, -22>>, <<0, 11537449, -24>> >>
    [] x = <<0, 6885339, -23>> -> << <<0, 12275703, -24>>, <<0, 357375, -19>> >>
    [] x = <<0, 7, -3>> -> << <<0, 12877243, -24>>, <<0, 10754143, -24>> >>
    [] x = <<0, 15, -4>> -> << <<0, 13523797, -24>>, <<0, 4964421, -23>> >>
    [] x = <<0, 1, 0>> -> << <<0, 3529385, -22>>, <<0, 141637, -18>> >>
    [] x = <<0, 8982491, -23>> -> << <<0, 14723393, -24>>, <<0, 8043425, -24>> >>
    [] x = <<0, 9, -3>> -> << <<0, 7568769, -23>>, <<0, 14467883, -25>> >>
    [] x = <<0, 2470649, -21>> -> << <<0, 7750063, -23>>, <<0, 12840725, -25>> >>
    [] x = <<0, 5, -2>> -> << <<0, 1990165, -21>>, <<0, 10580463, -25>> >>
    [] x = <<0, 11079643, -23>> -> << <<0, 16255653, -24>>, <<0, 4150749, -24>> >>
    [] x = <<0, 11, -3>> -> << <<0, 16456655, -24>>, <<0, 3263969, -24>> >>
    [] x = <<0, 3, -1>> -> << <<0, 16735189, -24>>, <<0, 4747093, -26>> >>
    [] x = <<0, 13172601, -23>> -> << <<0, 8388607, -23>>, <<0, 8588561, -34>> >>
    [] x = <<0, 13176795, -23>> -> << <<0, 1, 0>>, <<1, 6151831, -47>> >>
    [] x = <<0, 13, -3>> -> << <<0, 261759, -18>>, <<1, 1817883, -25>> >>
    [] x = <<0, 7, -2>> -> << <<0, 16508545, -24>>, <<1, 5980945, -25>> >>
    [] x = <<0, 15273947, -23>> -> << <<0, 16255653, -24>>, <<1, 8301501, -25>> >>
    [] x = <<0, 15, -3>> -> << <<0, 16006903, -24>>, <<1, 10050677, -25>> >>
    [] x = <<0, 16470993, -23>> -> << <<0, 15500127, -24>>, <<1, 3210181, -23>> >>
    [] x = <<0, 1, 1>> -> << <<0, 15255479, -24>>, <<1, 13963571, -25>> >>
    [] x = <<0, 4342775, -21>> -> << <<0, 14723391, -24>>, <<1, 2010857, -22>> >>
    [] x = <<0, 4867063, -21>> -> << <<0, 3068925, -22>>, <<1, 11436003, -24>> >>
    [] x = <<0, 2470649, -20>> -> << <<0, 11863283, -24>>, <<1, 11863283, -24>> >>
    [] x = <<0, 11529695, -22>> -> << <<0, 12840727, -25>>, <<1, 7750063, -23>> >>
    [] x = <<0, 13176795, -22>> -> << <<1, 6151831, -46>>, <<1, 1, 0>> >>
    [] x = <<0, 16470993, -22>> -> << <<1, 5931641, -23>>, <<1, 2965821, -22>> >>
    [] x = <<0, 2470649, -19>> -> << <<1, 1, 0>>, <<0, 6713111, -49>> >>
    [] x = <<0, 11529695, -21>> -> << <<1, 11863285, -24>>, <<0, 11863281, -24>> >>
    [] x = <<0, 13176795, -21>> -> << <<0, 6151831, -45>>, <<0, 1, 0>> >>

\* (angle * 0.5).sin_cos()
HalfSinCos(angle) == SinCos(RMul(angle, Half))

\* HalfSinCos without the * 0.5: the sine and cosine of the whole angle
WholeSinCos(angle) == SinCos(angle)

\* rotation_xy with the angle not halved
rotation_xy_WholeAngle(angle) ==
  LET sin == WholeSinCos(angle)[1]
      cos == WholeSinCos(angle)[2]
  IN  [ s |-> cos,
        e01 |-> Zero, e02 |-> Zero, e03 |-> Zero, e04 |-> Zero,
        e12 |-> sin,
        e13 |-> Zero, e14 |-> Zero, e23 |-> Zero, e24 |-> Zero, e34 |-> Zero,
        e0123 |-> Zero, e0124 |-> Zero, e0134 |-> Zero, e0234 |-> Zero, e1234 |-> Zero ]

rotation_xy(angle) ==
  LET sin == HalfSinCos(angle)[1]
      cos == HalfSinCos(angle)[2]
  IN  [ s |-> cos,
        e01 |-> Zero, e02 |-> Zero, e03 |-> Zero, e04 |-> Zero,
        e12 |-> sin,
        e13 |-> Zero, e14 |-> Zero, e23 |-> Zero, e24 |-> Zero, e34 |-> Zero,
        e0123 |-> Zero, e0124 |-> Zero, e0134 |-> Zero, e0234 |-> Zero, e1234 |-> Zero ]

\* Not with e12 not negated
Not_KeepsE12(self) ==
  [ s |-> self.s,
    e01 |-> RNeg(self.e01), e02 |-> RNeg(self.e02), e03 |-> RNeg(self.e03),
    e04 |-> RNeg(self.e04), e12 |-> self.e12, e13 |-> RNeg(self.e13),
    e14 |-> RNeg(self.e14), e23 |-> RNeg(self.e23), e24 |-> RNeg(self.e24),
    e34 |-> RNeg(self.e34),
    e0123 |-> self.e0123, e0124 |-> self.e0124, e0134 |-> self.e0134,
    e0234 |-> self.e0234, e1234 |-> self.e1234 ]

\* the reverse with the grade-4 field e1234 negated too
Not_NegatesE1234(self) ==
  [ s |-> self.s,
    e01 |-> RNeg(self.e01), e02 |-> RNeg(self.e02), e03 |-> RNeg(self.e03),
    e04 |-> RNeg(self.e04), e12 |-> RNeg(self.e12), e13 |-> RNeg(self.e13),
    e14 |-> RNeg(self.e14), e23 |-> RNeg(self.e23), e24 |-> RNeg(self.e24),
    e34 |-> RNeg(self.e34),
    e0123 |-> self.e0123, e0124 |-> self.e0124, e0134 |-> self.e0134,
    e0234 |-> self.e0234, e1234 |-> RNeg(self.e1234) ]

\* impl Not for Rotor: the reverse
Not(self) ==
  [ s |-> self.s,
    e01 |-> RNeg(self.e01), e02 |-> RNeg(self.e02), e03 |-> RNeg(self.e03),
    e04 |-> RNeg(self.e04), e12 |-> RNeg(self.e12), e13 |-> RNeg(self.e13),
    e14 |-> RNeg(self.e14), e23 |-> RNeg(self.e23), e24 |-> RNeg(self.e24),
    e34 |-> RNeg(self.e34),
    e0123 |-> self.e0123, e0124 |-> self.e0124, e0134 |-> self.e0134,
    e0234 |-> self.e0234, e1234 |-> self.e1234 ]

\* impl Mul<Rotor> for Rotor: the product self * rhs
\* rotor.rs 341-341
Mul_s(self, rhs) ==
  RSum(<<RMul(RNeg(self.e12), rhs.e12), RMul(RNeg(self.e13), rhs.e13),
  RMul(RNeg(self.e14), rhs.e14), RMul(RNeg(self.e23), rhs.e23),
  RMul(RNeg(self.e24), rhs.e24), RMul(RNeg(self.e34), rhs.e34), RMul(self.s, rhs.s),
  RMul(self.e1234, rhs.e1234)>>)

\* Mul_e01 with the sign of a2 * b1 slipped
Mul_e01_SignSlip(self, rhs) ==
  RSum(<<RMul(RNeg(self.e02), rhs.e12), RMul(RNeg(self.e03), rhs.e13),
  RMul(RNeg(self.e04), rhs.e14), RMul(RNeg(self.e23), rhs.e0123),
  RMul(RNeg(rhs.e23), self.e0123), RMul(RNeg(self.e24), rhs.e0124),
  RMul(RNeg(rhs.e24), self.e0124), RMul(RNeg(self.e34), rhs.e0134),
  RMul(RNeg(rhs.e34), self.e0134), RMul(RNeg(rhs.e0234), self.e1234), RMul(self.s, rhs.e01),
  RMul(RNeg(rhs.s), self.e01), RMul(rhs.e02, self.e12), RMul(rhs.e03, self.e13),
  RMul(rhs.e04, self.e14), RMul(self.e0234, rhs.e1234)>>)

\* rotor.rs 342-357
Mul_e01(self, rhs) ==
  RSum(<<RMul(RNeg(self.e02), rhs.e12), RMul(RNeg(self.e03), rhs.e13),
  RMul(RNeg(self.e04), rhs.e14), RMul(RNeg(self.e23), rhs.e0123),
  RMul(RNeg(rhs.e23), self.e0123), RMul(RNeg(self.e24), rhs.e0124),
  RMul(RNeg(rhs.e24), self.e0124), RMul(RNeg(self.e34), rhs.e0134),
  RMul(RNeg(rhs.e34), self.e0134), RMul(RNeg(rhs.e0234), self.e1234), RMul(self.s, rhs.e01),
  RMul(rhs.s, self.e01), RMul(rhs.e02, self.e12), RMul(rhs.e03, self.e13),
  RMul(rhs.e04, self.e14), RMul(self.e0234, rhs.e1234)>>)

\* Mul_e02 with the term a2 * c1 left out
Mul_e02_MissingTerm(self, rhs) ==
  RSum(<<RMul(RNeg(rhs.e01), self.e12), RMul(RNeg(self.e03), rhs.e23),
  RMul(RNeg(self.e04), rhs.e24), RMul(RNeg(self.e34), rhs.e0234),
  RMul(RNeg(rhs.e34), self.e0234), RMul(RNeg(self.e0134), rhs.e1234), RMul(self.s, rhs.e02),
  RMul(self.e01, rhs.e12), RMul(rhs.e03, self.e23),
  RMul(rhs.e04, self.e24), RMul(self.e13, rhs.e0123), RMul(rhs.e13, self.e0123),
  RMul(self.e14, rhs.e0124), RMul(rhs.e14, self.e0124), RMul(rhs.e0134, self.e1234)>>)

\* rotor.rs 358-373
Mul_e02(self, rhs) ==
  RSum(<<RMul(RNeg(rhs.e01), self.e12), RMul(RNeg(self.e03), rhs.e23),
  RMul(RNeg(self.e04), rhs.e24), RMul(RNeg(self.e34), rhs.e0234),
  RMul(RNeg(rhs.e34), self.e0234), RMul(RNeg(self.e0134), rhs.e1234), RMul(self.s, rhs.e02),
  RMul(rhs.s, self.e02), RMul(self.e01, rhs.e12), RMul(rhs.e03, self.e23),
  RMul(rhs.e04, self.e24), RMul(self.e13, rhs.e0123), RMul(rhs.e13, self.e0123),
  RMul(self.e14, rhs.e0124), RMul(rhs.e14, self.e0124), RMul(rhs.e0134, self.e1234)>>)

\* Mul_e03 with the sign of a1 * d2 slipped
Mul_e03_SignSlip(self, rhs) ==
  RSum(<<RMul(RNeg(rhs.e01), self.e13), RMul(RNeg(rhs.e02), self.e23),
  RMul(RNeg(self.e04), rhs.e34), RMul(RNeg(self.e12), rhs.e0123),
  RMul(RNeg(rhs.e12), self.e0123), RMul(RNeg(rhs.e0124), self.e1234), RMul(RNeg(self.s), rhs.e03),
  RMul(rhs.s, self.e03), RMul(self.e01, rhs.e13), RMul(self.e02, rhs.e23),
  RMul(rhs.e04, self.e34), RMul(self.e14, rhs.e0134), RMul(rhs.e14, self.e0134),
  RMul(self.e24, rhs.e0234), RMul(rhs.e24, self.e0234), RMul(self.e0124, rhs.e1234)>>)

\* rotor.rs 374-389
Mul_e03(self, rhs) ==
  RSum(<<RMul(RNeg(rhs.e01), self.e13), RMul(RNeg(rhs.e02), self.e23),
  RMul(RNeg(self.e04), rhs.e34), RMul(RNeg(self.e12), rhs.e0123),
  RMul(RNeg(rhs.e12), self.e0123), RMul(RNeg(rhs.e0124), self.e1234), RMul(self.s, rhs.e03),
  RMul(rhs.s, self.e03), RMul(self.e01, rhs.e13), RMul(self.e02, rhs.e23),
  RMul(rhs.e04, self.e34), RMul(self.e14, rhs.e0134), RMul(rhs.e14, self.e0134),
  RMul(self.e24, rhs.e0234), RMul(rhs.e24, self.e0234), RMul(self.e0124, rhs.e1234)>>)

\* Mul_e04 with a1 * d2 written for a1 * f2
Mul_e04_WrongField(self, rhs) ==
  RSum(<<RMul(RNeg(rhs.e01), self.e14), RMul(RNeg(rhs.e02), self.e24),
  RMul(RNeg(rhs.e03), self.e34), RMul(RNeg(self.e12), rhs.e0124),
  RMul(RNeg(rhs.e12), self.e0124), RMul(RNeg(self.e13), rhs.e0134),
  RMul(RNeg(rhs.e13), self.e0134), RMul(RNeg(self.e23), rhs.e0234),
  RMul(RNeg(rhs.e23), self.e0234), RMul(RNeg(self.e0123), rhs.e1234), RMul(self.s, rhs.e03),
  RMul(rhs.s, self.e04), RMul(self.e01, rhs.e14), RMul(self.e02, rhs.e24),
  RMul(self.e03, rhs.e34), RMul(rhs.e0123, self.e1234)>>)

\* rotor.rs 390-405
Mul_e04(self, rhs) ==
  RSum(<<RMul(RNeg(rhs.e01), self.e14), RMul(RNeg(rhs.e02), self.e24),
  RMul(RNeg(rhs.e03), self.e34), RMul(RNeg(self.e12), rhs.e0124),
  RMul(RNeg(rhs.e12), self.e0124), RMul(RNeg(self.e13), rhs.e0134),
  RMul(RNeg(rhs.e13), self.e0134), RMul(RNeg(self.e23), rhs.e0234),
  RMul(RNeg(rhs.e23), self.e0234), RMul(RNeg(self.e0123), rhs.e1234), RMul(self.s, rhs.e04),
  RMul(rhs.s, self.e04), RMul(self.e01, rhs.e14), RMul(self.e02, rhs.e24),
  RMul(self.e03, rhs.e34), RMul(rhs.e0123, self.e1234)>>)

\* Mul_e12 with the sign of a2 * g1 slipped
Mul_e12_SignSlip(self, rhs) ==
  RSum(<<RMul(RNeg(self.e13), rhs.e23), RMul(RNeg(self.e14), rhs.e24),
  RMul(RNeg(self.e34), rhs.e1234), RMul(RNeg(rhs.e34), self.e1234), RMul(self.s, rhs.e12),
  RMul(RNeg(rhs.s), self.e12), RMul(rhs.e13, self.e23), RMul(rhs.e14, self.e24)>>)

\* rotor.rs 406-406
Mul_e12(self, rhs) ==
  RSum(<<RMul(RNeg(self.e13), rhs.e23), RMul(RNeg(self.e14), rhs.e24),
  RMul(RNeg(self.e34), rhs.e1234), RMul(RNeg(rhs.e34), self.e1234), RMul(self.s, rhs.e12),
  RMul(rhs.s, self.e12), RMul(rhs.e13, self.e23), RMul(rhs.e14, self.e24)>>)

\* Mul_e13 with the sign of k1 * q2 slipped
Mul_e13_SignSlip(self, rhs) ==
  RSum(<<RMul(RNeg(rhs.e12), self.e23), RMul(RNeg(self.e14), rhs.e34), RMul(self.s, rhs.e13),
  RMul(rhs.s, self.e13), RMul(self.e12, rhs.e23), RMul(rhs.e14, self.e34),
  RMul(RNeg(self.e24), rhs.e1234), RMul(rhs.e24, self.e1234)>>)

\* rotor.rs 407-407
Mul_e13(self, rhs) ==
  RSum(<<RMul(RNeg(rhs.e12), self.e23), RMul(RNeg(self.e14), rhs.e34), RMul(self.s, rhs.e13),
  RMul(rhs.s, self.e13), RMul(self.e12, rhs.e23), RMul(rhs.e14, self.e34),
  RMul(self.e24, rhs.e1234), RMul(rhs.e24, self.e1234)>>)

\* rotor.rs 408-408
Mul_e14(self, rhs) ==
  RSum(<<RMul(RNeg(rhs.e12), self.e24), RMul(RNeg(rhs.e13), self.e34),
  RMul(RNeg(self.e23), rhs.e1234), RMul(RNeg(rhs.e23), self.e1234), RMul(self.s, rhs.e14),
  RMul(rhs.s, self.e14), RMul(self.e12, rhs.e24), RMul(self.e13, rhs.e34)>>)

\* rotor.rs 409-409
Mul_e23(self, rhs) ==
  RSum(<<RMul(RNeg(self.e12), rhs.e13), RMul(RNeg(self.e14), rhs.e1234),
  RMul(RNeg(rhs.e14), self.e1234), RMul(RNeg(self.e24), rhs.e34), RMul(self.s, rhs.e23),
  RMul(rhs.s, self.e23), RMul(rhs.e12, self.e13), RMul(rhs.e24, self.e34)>>)

\* rotor.rs 410-410
Mul_e24(self, rhs) ==
  RSum(<<RMul(RNeg(self.e12), rhs.e14), RMul(RNeg(rhs.e23), self.e34), RMul(self.s, rhs.e24),
  RMul(rhs.s, self.e24), RMul(rhs.e12, self.e14), RMul(self.e13, rhs.e1234),
  RMul(rhs.e13, self.e1234), RMul(self.e23, rhs.e34)>>)

\* rotor.rs 411-411
Mul_e34(self, rhs) ==
  RSum(<<RMul(RNeg(self.e12), rhs.e1234), RMul(RNeg(rhs.e12), self.e1234),
  RMul(RNeg(self.e13), rhs.e14), RMul(RNeg(self.e23), rhs.e24), RMul(self.s, rhs.e34),
  RMul(rhs.s, self.e34), RMul(rhs.e13, self.e14), RMul(rhs.e23, self.e24)>>)

\* Mul_e0123 with the sign of f1 * q2 slipped
Mul_e0123_SignSlip(self, rhs) ==
  RSum(<<RMul(RNeg(self.e02), rhs.e13), RMul(RNeg(rhs.e02), self.e13),
  RMul(self.e04, rhs.e1234), RMul(RNeg(rhs.e14), self.e0234),
  RMul(RNeg(self.e24), rhs.e0134), RMul(RNeg(rhs.e34), self.e0124), RMul(self.s, rhs.e0123),
  RMul(rhs.s, self.e0123), RMul(self.e01, rhs.e23), RMul(rhs.e01, self.e23),
  RMul(self.e03, rhs.e12), RMul(rhs.e03, self.e12), RMul(rhs.e04, self.e1234),
  RMul(self.e14, rhs.e0234), RMul(rhs.e24, self.e0134), RMul(self.e34, rhs.e0124)>>)

\* rotor.rs 412-427
Mul_e0123(self, rhs) ==
  RSum(<<RMul(RNeg(self.e02), rhs.e13), RMul(RNeg(rhs.e02), self.e13),
  RMul(RNeg(self.e04), rhs.e1234), RMul(RNeg(rhs.e14), self.e0234),
  RMul(RNeg(self.e24), rhs.e0134), RMul(RNeg(rhs.e34), self.e0124), RMul(self.s, rhs.e0123),
  RMul(rhs.s, self.e0123), RMul(self.e01, rhs.e23), RMul(rhs.e01, self.e23),
  RMul(self.e03, rhs.e12), RMul(rhs.e03, self.e12), RMul(rhs.e04, self.e1234),
  RMul(self.e14, rhs.e0234), RMul(rhs.e24, self.e0134), RMul(self.e34, rhs.e0124)>>)

\* rotor.rs 428-443
Mul_e0124(self, rhs) ==
  RSum(<<RMul(RNeg(self.e02), rhs.e14), RMul(RNeg(rhs.e02), self.e14),
  RMul(RNeg(rhs.e03), self.e1234), RMul(RNeg(self.e13), rhs.e0234),
  RMul(RNeg(rhs.e23), self.e0134), RMul(RNeg(self.e34), rhs.e0123), RMul(self.s, rhs.e0124),
  RMul(rhs.s, self.e0124), RMul(self.e01, rhs.e24), RMul(rhs.e01, self.e24),
  RMul(self.e03, rhs.e1234), RMul(self.e04, rhs.e12), RMul(rhs.e04, self.e12),
  RMul(rhs.e13, self.e0234), RMul(self.e23, rhs.e0134), RMul(rhs.e34, self.e0123)>>)

\* rotor.rs 444-459
Mul_e0134(self, rhs) ==
  RSum(<<RMul(RNeg(self.e02), rhs.e1234), RMul(RNeg(self.e03), rhs.e14),
  RMul(RNeg(rhs.e03), self.e14), RMul(RNeg(rhs.e12), self.e0234),
  RMul(RNeg(self.e23), rhs.e0124), RMul(RNeg(rhs.e24), self.e0123), RMul(self.s, rhs.e0134),
  RMul(rhs.s, self.e0134), RMul(self.e01, rhs.e34), RMul(rhs.e01, self.e34),
  RMul(rhs.e02, self.e1234), RMul(self.e04, rhs.e13), RMul(rhs.e04, self.e13),
  RMul(self.e12, rhs.e0234), RMul(rhs.e23, self.e0124), RMul(self.e24, rhs.e0123)>>)

\* rotor.rs 460-475
Mul_e0234(self, rhs) ==
  RSum(<<RMul(RNeg(rhs.e01), self.e1234), RMul(RNeg(self.e03), rhs.e24),
  RMul(RNeg(rhs.e03), self.e24), RMul(RNeg(self.e12), rhs.e0134),
  RMul(RNeg(rhs.e13), self.e0124), RMul(RNeg(self.e14), rhs.e0123), RMul(self.s, rhs.e0234),
  RMul(rhs.s, self.e0234), RMul(self.e01, rhs.e1234), RMul(self.e02, rhs.e34),
  RMul(rhs.e02, self.e34), RMul(self.e04, rhs.e23), RMul(rhs.e04, self.e23),
  RMul(rhs.e12, self.e0134), RMul(self.e13, rhs.e0124), RMul(rhs.e14, self.e0123)>>)

\* rotor.rs 476-476
Mul_e1234(self, rhs) ==
  RSum(<<RMul(RNeg(self.e13), rhs.e24), RMul(RNeg(rhs.e13), self.e24),
  RMul(self.s, rhs.e1234), RMul(rhs.s, self.e1234), RMul(self.e12, rhs.e34),
  RMul(rhs.e12, self.e34), RMul(self.e14, rhs.e23), RMul(rhs.e14, self.e23)>>)

Mul(self, rhs) ==
  [ s |-> Mul_s(self, rhs),
    e01 |-> Mul_e01(self, rhs),
    e02 |-> Mul_e02(self, rhs),
    e03 |-> Mul_e03(self, rhs),
    e04 |-> Mul_e04(self, rhs),
    e12 |-> Mul_e12(self, rhs),
    e13 |-> Mul_e13(self, rhs),
    e14 |-> Mul_e14(self, rhs),
    e23 |-> Mul_e23(self, rhs),
    e24 |-> Mul_e24(self, rhs),
    e34 |-> Mul_e34(self, rhs),
    e0123 |-> Mul_e0123(self, rhs),
    e0124 |-> Mul_e0124(self, rhs),
    e0134 |-> Mul_e0134(self, rhs),
    e0234 |-> Mul_e0234(self, rhs),
    e1234 |-> Mul_e1234(self, rhs) ]

\* magnitude_squared without the reverse
magnitude_squared_NoReverse(self) == Mul(self, self).s

magnitude_squared(self) == Mul(Not(self), self).s

magnitude(self) == RSqrt(magnitude_squared(self))

normalized(self) ==
  LET inverse_magnitude == RRecip(magnitude(self))
  IN  [ f \in FieldSet |-> RMul(self[f], inverse_magnitude) ]

\* transform with the sign of m * g slipped
transform_SignSlip(self, point) ==
  LET a == self.s
      b == self.e01
      c == self.e02
      d == self.e03
      f == self.e04
      g == self.e12
      h == self.e13
      i == self.e14
      j == self.e23
      k == self.e24
      l == self.e34
      m == self.e0123
      n == self.e0124
      o == self.e0134
      p == self.e0234
      q == self.e1234
      p0 == point[1]
      p1 == point[2]
      p2 == point[3]
      p3 == point[4]
      ap2 == RMul(a, p2)
      gp3 == RMul(g, p3)
      jp1 == RMul(j, p1)
      kp0 == RMul(k, p0)
      ap3 == RMul(a, p3)
      gp2 == RMul(g, p2)
      hp1 == RMul(h, p1)
      ip0 == RMul(i, p0)
      ap1 == RMul(a, p1)
      lp0 == RMul(l, p0)
      hp3 == RMul(h, p3)
      jp2 == RMul(j, p2)
      ap0 == RMul(a, p0)
      lp1 == RMul(l, p1)
      ip3 == RMul(i, p3)
      kp2 == RMul(k, p2)
      s0 == RSum(<<c, jp1, RNeg(ap2), RNeg(gp3), RNeg(kp0)>>)
      s1 == RSum(<<ap3, b, hp1, RNeg(gp2), RNeg(ip0)>>)
      s2 == RSum(<<ap1, d, jp2, RNeg(lp0), RNeg(hp3)>>)
      s3 == RSum(<<f, kp2, RNeg(ap0), RNeg(lp1), RNeg(ip3)>>)
  IN  << RAdd(p0, RMul(Two, RSum(<<RMul(q, RSum(<<m, RMul(g, p1), RMul(h, p2), RMul(j, p3), RNeg(RMul(q, p0))>>)), RMul(k, s0), RMul(i, s1), RMul(l, s2), RNeg(RMul(a, f)), RNeg(RMul(n, g)), RNeg(RMul(o, h)), RNeg(RMul(p, j))>>))),
         RAdd(p1, RMul(Two, RSum(<<RMul(a, d), RNeg(RMul(m, g)), RMul(q, RSum(<<n, RMul(i, p2), RMul(k, p3), RNeg(RMul(q, p1)), RNeg(RMul(g, p0))>>)), RMul(l, s3), RNeg(RMul(o, i)), RNeg(RMul(p, k)), RNeg(RMul(j, s0)), RNeg(RMul(h, s1))>>))),
         RAdd(p2, RMul(Two, RSum(<<RMul(m, h), RMul(n, i), RMul(q, RSum(<<RMul(l, p3), o, RNeg(RMul(q, p2)), RNeg(RMul(h, p0)), RNeg(RMul(i, p1))>>)), RMul(g, s1), RNeg(RMul(a, c)), RNeg(RMul(l, p)), RNeg(RMul(k, s3)), RNeg(RMul(j, s2))>>))),
         RAdd(p3, RMul(Two, RSum(<<RMul(a, b), RMul(l, o), RMul(m, j), RMul(n, k), RMul(q, RSum(<<p, RNeg(RMul(l, p2)), RNeg(RMul(q, p3)), RNeg(RMul(j, p0)), RNeg(RMul(k, p1))>>)), RMul(i, s3), RMul(h, s2), RMul(g, s0)>>))) >>

\* Rotor::transform: self applied to the point [p0, p1, p2, p3]
transform(self, point) ==
  LET a == self.s
      b == self.e01
      c == self.e02
      d == self.e03
      f == self.e04
      g == self.e12
      h == self.e13
      i == self.e14
      j == self.e23
      k == self.e24
      l == self.e34
      m == self.e0123
      n == self.e0124
      o == self.e0134
      p == self.e0234
      q == self.e1234
      p0 == point[1]
      p1 == point[2]
      p2 == point[3]
      p3 == point[4]
      ap2 == RMul(a, p2)
      gp3 == RMul(g, p3)
      jp1 == RMul(j, p1)
      kp0 == RMul(k, p0)
      ap3 == RMul(a, p3)
      gp2 == RMul(g, p2)
      hp1 == RMul(h, p1)
      ip0 == RMul(i, p0)
      ap1 == RMul(a, p1)
      lp0 == RMul(l, p0)
      hp3 == RMul(h, p3)
      jp2 == RMul(j, p2)
      ap0 == RMul(a, p0)
      lp1 == RMul(l, p1)
      ip3 == RMul(i, p3)
      kp2 == RMul(k, p2)
      s0 == RSum(<<c, jp1, RNeg(ap2), RNeg(gp3), RNeg(kp0)>>)
      s1 == RSum(<<ap3, b, hp1, RNeg(gp2), RNeg(ip0)>>)
      s2 == RSum(<<ap1, d, jp2, RNeg(lp0), RNeg(hp3)>>)
      s3 == RSum(<<f, kp2, RNeg(ap0), RNeg(lp1), RNeg(ip3)>>)
  IN  << RAdd(p0, RMul(Two, RSum(<<RMul(q, RSum(<<m, RMul(g, p1), RMul(h, p2), RMul(j, p3), RNeg(RMul(q, p0))>>)), RMul(k, s0), RMul(i, s1), RMul(l, s2), RNeg(RMul(a, f)), RNeg(RMul(n, g)), RNeg(RMul(o, h)), RNeg(RMul(p, j))>>))),
         RAdd(p1, RMul(Two, RSum(<<RMul(a, d), RMul(m, g), RMul(q, RSum(<<n, RMul(i, p2), RMul(k, p3), RNeg(RMul(q, p1)), RNeg(RMul(g, p0))>>)), RMul(l, s3), RNeg(RMul(o, i)), RNeg(RMul(p, k)), RNeg(RMul(j, s0)), RNeg(RMul(h, s1))>>))),
         RAdd(p2, RMul(Two, RSum(<<RMul(m, h), RMul(n, i), RMul(q, RSum(<<RMul(l, p3), o, RNeg(RMul(q, p2)), RNeg(RMul(h, p0)), RNeg(RMul(i, p1))>>)), RMul(g, s1), RNeg(RMul(a, c)), RNeg(RMul(l, p)), RNeg(RMul(k, s3)), RNeg(RMul(j, s2))>>))),
         RAdd(p3, RMul(Two, RSum(<<RMul(a, b), RMul(l, o), RMul(m, j), RMul(n, k), RMul(q, RSum(<<p, RNeg(RMul(l, p2)), RNeg(RMul(q, p3)), RNeg(RMul(j, p0)), RNeg(RMul(k, p1))>>)), RMul(i, s3), RMul(h, s2), RMul(g, s0)>>))) >>

\* transform_direction reading e0234 where it reads e1234
transform_direction_ReadsE0234(self, normal) ==
  LET a == self.s
      f == self.e12
      g == self.e13
      h == self.e14
      i == self.e23
      j == self.e24
      k == self.e34
      p == self.e0234
      p0 == normal[1]
      p1 == normal[2]
      p2 == normal[3]
      p3 == normal[4]
      ap2 == RMul(a, p2)
      fp3 == RMul(f, p3)
      ip1 == RMul(i, p1)
      jp0 == RMul(j, p0)
      ap3 == RMul(a, p3)
      fp2 == RMul(f, p2)
      gp1 == RMul(g, p1)
      hp0 == RMul(h, p0)
      ap1 == RMul(a, p1)
      kp0 == RMul(k, p0)
      gp3 == RMul(g, p3)
      ip2 == RMul(i, p2)
      ap0 == RMul(a, p0)
      kp1 == RMul(k, p1)
      hp3 == RMul(h, p3)
      jp2 == RMul(j, p2)
      s0 == RSum(<<ip1, RNeg(ap2), RNeg(fp3), RNeg(jp0)>>)
      s1 == RSum(<<ap3, gp1, RNeg(fp2), RNeg(hp0)>>)
      s2 == RSum(<<ap1, ip2, RNeg(kp0), RNeg(gp3)>>)
      s3 == RSum(<<jp2, RNeg(ap0), RNeg(kp1), RNeg(hp3)>>)
  IN  << RAdd(p0, RMul(Two, RSum(<<RMul(p, RSum(<<RMul(f, p1), RMul(g, p2), RMul(i, p3), RNeg(RMul(p, p0))>>)), RMul(j, s0), RMul(h, s1), RMul(k, s2)>>))),
         RAdd(p1, RMul(Two, RSum(<<RMul(p, RSum(<<RMul(h, p2), RMul(j, p3), RNeg(RMul(p, p1)), RNeg(RMul(f, p0))>>)), RMul(k, s3), RNeg(RMul(i, s0)), RNeg(RMul(g, s1))>>))),
         RAdd(p2, RMul(Two, RSum(<<RMul(p, RSum(<<RMul(k, p3), RNeg(RMul(p, p2)), RNeg(RMul(g, p0)), RNeg(RMul(h, p1))>>)), RMul(f, s1), RNeg(RMul(j, s3)), RNeg(RMul(i, s2))>>))),
         RAdd(p3, RMul(Two, RSum(<<RMul(h, s3), RMul(g, s2), RMul(f, s0), RNeg(RMul(p, RSum(<<RMul(k, p2), RMul(p, p3), RMul(i, p0), RMul(j, p1)>>)))>>))) >>

\* transform_direction with the sign of f * p2 slipped
transform_direction_SignSlip(self, normal) ==
  LET a == self.s
      f == self.e12
      g == self.e13
      h == self.e14
      i == self.e23
      j == self.e24
      k == self.e34
      p == self.e1234
      p0 == normal[1]
      p1 == normal[2]
      p2 == normal[3]
      p3 == normal[4]
      ap2 == RMul(a, p2)
      fp3 == RMul(f, p3)
      ip1 == RMul(i, p1)
      jp0 == RMul(j, p0)
      ap3 == RMul(a, p3)
      fp2 == RMul(f, p2)
      gp1 == RMul(g, p1)
      hp0 == RMul(h, p0)
      ap1 == RMul(a, p1)
      kp0 == RMul(k, p0)
      gp3 == RMul(g, p3)
      ip2 == RMul(i, p2)
      ap0 == RMul(a, p0)
      kp1 == RMul(k, p1)
      hp3 == RMul(h, p3)
      jp2 == RMul(j, p2)
      s0 == RSum(<<ip1, RNeg(ap2), RNeg(fp3), RNeg(jp0)>>)
      s1 == RSum(<<ap3, gp1, fp2, RNeg(hp0)>>)
      s2 == RSum(<<ap1, ip2, RNeg(kp0), RNeg(gp3)>>)
      s3 == RSum(<<jp2, RNeg(ap0), RNeg(kp1), RNeg(hp3)>>)
  IN  << RAdd(p0, RMul(Two, RSum(<<RMul(p, RSum(<<RMul(f, p1), RMul(g, p2), RMul(i, p3), RNeg(RMul(p, p0))>>)), RMul(j, s0), RMul(h, s1), RMul(k, s2)>>))),
         RAdd(p1, RMul(Two, RSum(<<RMul(p, RSum(<<RMul(h, p2), RMul(j, p3), RNeg(RMul(p, p1)), RNeg(RMul(f, p0))>>)), RMul(k, s3), RNeg(RMul(i, s0)), RNeg(RMul(g, s1))>>))),
         RAdd(p2, RMul(Two, RSum(<<RMul(p, RSum(<<RMul(k, p3), RNeg(RMul(p, p2)), RNeg(RMul(g, p0)), RNeg(RMul(h, p1))>>)), RMul(f, s1), RNeg(RMul(j, s3)), RNeg(RMul(i, s2))>>))),
         RAdd(p3, RMul(Two, RSum(<<RMul(h, s3), RMul(g, s2), RMul(f, s0), RNeg(RMul(p, RSum(<<RMul(k, p2), RMul(p, p3), RMul(i, p0), RMul(j, p1)>>)))>>))) >>

\* Rotor::transform_direction: self applied to the direction [p0, p1, p2, p3]
transform_direction(self, normal) ==
  LET a == self.s
      f == self.e12
      g == self.e13
      h == self.e14
      i == self.e23
      j == self.e24
      k == self.e34
      p == self.e1234
      p0 == normal[1]
      p1 == normal[2]
      p2 == normal[3]
      p3 == normal[4]
      ap2 == RMul(a, p2)
      fp3 == RMul(f, p3)
      ip1 == RMul(i, p1)
      jp0 == RMul(j, p0)
      ap3 == RMul(a, p3)
      fp2 == RMul(f, p2)
      gp1 == RMul(g, p1)
      hp0 == RMul(h, p0)
      ap1 == RMul(a, p1)
      kp0 == RMul(k, p0)
      gp3 == RMul(g, p3)
      ip2 == RMul(i, p2)
      ap0 == RMul(a, p0)
      kp1 == RMul(k, p1)
      hp3 == RMul(h, p3)
      jp2 == RMul(j, p2)
      s0 == RSum(<<ip1, RNeg(ap2), RNeg(fp3), RNeg(jp0)>>)
      s1 == RSum(<<ap3, gp1, RNeg(fp2), RNeg(hp0)>>)
      s2 == RSum(<<ap1, ip2, RNeg(kp0), RNeg(gp3)>>)
      s3 == RSum(<<jp2, RNeg(ap0), RNeg(kp1), RNeg(hp3)>>)
  IN  << RAdd(p0, RMul(Two, RSum(<<RMul(p, RSum(<<RMul(f, p1), RMul(g, p2), RMul(i, p3), RNeg(RMul(p, p0))>>)), RMul(j, s0), RMul(h, s1), RMul(k, s2)>>))),
         RAdd(p1, RMul(Two, RSum(<<RMul(p, RSum(<<RMul(h, p2), RMul(j, p3), RNeg(RMul(p, p1)), RNeg(RMul(f, p0))>>)), RMul(k, s3), RNeg(RMul(i, s0)), RNeg(RMul(g, s1))>>))),
         RAdd(p2, RMul(Two, RSum(<<RMul(p, RSum(<<RMul(k, p3), RNeg(RMul(p, p2)), RNeg(RMul(g, p0)), RNeg(RMul(h, p1))>>)), RMul(f, s1), RNeg(RMul(j, s3)), RNeg(RMul(i, s2))>>))),
         RAdd(p3, RMul(Two, RSum(<<RMul(h, s3), RMul(g, s2), RMul(f, s0), RNeg(RMul(p, RSum(<<RMul(k, p2), RMul(p, p3), RMul(i, p0), RMul(j, p1)>>)))>>))) >>

(***************************************************************************)
(* struct Point (point.rs): from_cartesian puts x, y, z, w in the fields   *)
(* e0123, e0124, e0134, e0234 and the weight 1 in e1234.                   *)
(***************************************************************************)
from_cartesian(x, y, z, w) ==
  [ e0123 |-> x, e0124 |-> y, e0134 |-> z, e0234 |-> w, e1234 |-> One ]

\* Point::transform fabricating a value: the point returned as it is
Point_transform_ReturnsSelf(self, rotor) == [ kind |-> "value", value |-> self ]

\* Point::transform is todo!(): it panics with "not yet implemented" and
\* returns nothing
Point_transform(self, rotor) == [ kind |-> "panic", message |-> "not yet implemented" ]

(***************************************************************************)
(* Bounds of the inputs.                                                   *)
(***************************************************************************)
MaxVal == 2     \* integer motor components lie in -MaxVal..MaxVal
MaxOff == 2     \* axis offsets have length 1..MaxOff
MaxTurn == 2    \* angles are k / 2 radians for |k| <= MaxTurn, pi, -pi and a small one
MaxRaw == 2     \* the motors given to normalized are u + v * blade, u + v <= MaxRaw + 1
MaxTicks == 1   \* between two readings the clock advances by up to MaxTicks * ts + 1 ns,
SlowTicks == 15 \* or, in a slow frame, by a little more than SlowTicks * ts
MaxFrames == 2  \* the event loop starts at most MaxFrames iterations

(***************************************************************************)
(* Motors with integer components: every multiple of a basis blade and     *)
(* motors with all 16 fields populated.                                    *)
(***************************************************************************)
FieldIndex(f) == CHOOSE n \in 1..Len(Fields) : Fields[n] = f

ZeroRotor == [ f \in FieldSet |-> Zero ]

Blade(f, v) == [ ZeroRotor EXCEPT ![f] = v ]

Dense(off, stride) ==
  [ f \in FieldSet |->
      Int2F32(((stride * FieldIndex(f) + off) % (2 * MaxVal + 1)) - MaxVal) ]

UnitBlades == { Blade(f, One) : f \in FieldSet }

DenseMotors == { Dense(off, stride) : off \in 0..(2 * MaxVal), stride \in 1..2 }

IntMotors ==
  { Blade(f, Int2F32(v)) : f \in FieldSet, v \in (-MaxVal..MaxVal) \ {0} } \cup DenseMotors

(***************************************************************************)
(* Inputs of the constructors.  CameraStart is the offset Game::new gives  *)
(* the camera.                                                             *)
(***************************************************************************)
ZeroOffset == << Zero, Zero, Zero, Zero >>

Axis(n, v) == [ ZeroOffset EXCEPT ![n] = v ]

CameraStart == << Rat(-9, 2), Rat(1, 2), Rat(-3, 2), Rat(1, 2) >>

Offsets ==
  { Axis(n, Int2F32(v)) : n \in 1..4, v \in (-MaxOff..MaxOff) } \cup { CameraStart }

\* std::f32::consts::PI, the f32 nearest to pi
Pi == << 0, 13176795, -22 >>

\* the angle y * -0.001 of Game::cursor for y = 1.0
CursorAngle == RMul(One, Rat(-1, 1000))

Angles == { Rat(k, 2) : k \in -MaxTurn..MaxTurn } \cup { Pi, RNeg(Pi), CursorAngle }

RotationFields == { "e12", "e13", "e14", "e23", "e24", "e34" }

\* motors u + v * blade, for normalized: two rotation bivectors and e1234
RawFields == { "e13", "e24", "e1234" }

RawPairs == { uv \in (1..MaxRaw) \X (1..MaxRaw) : uv[1] + uv[2] <= MaxRaw + 1 }

RawMotors ==
  { [ Blade(f, Int2F32(uv[2])) EXCEPT !.s = Int2F32(uv[1]) ] : f \in RawFields, uv \in RawPairs }

\* how an operand is made: by translation, by rotation_xy or by normalized
Recipes ==
  [ kind : { "translation" }, arg : Offsets ] \cup
  [ kind : { "rotation_xy" }, arg : Angles ] \cup
  [ kind : { "normalized" }, arg : RawMotors ]

MakeRotor(recipe) ==
  CASE recipe.kind = "translation" -> translation(recipe.arg)
    [] recipe.kind = "rotation_xy" -> rotation_xy(recipe.arg)
    [] recipe.kind = "normalized" -> normalized(recipe.arg)

GenericPoint == << Rat(1, 2), Int2F32(-2), Int2F32(3), Rat(-5, 4) >>

\* the origin, the unit point of each axis and a point off the axes
Points == { ZeroOffset, GenericPoint } \cup { Axis(n, One) : n \in 1..4 }

(***************************************************************************)
(* State.  The algebra: the operands x, y, z, the recipes ra, rb that x    *)
(* and y were made by, a point pt, and the results of the operations       *)
(* applied to them.  The event loop of main.rs: its locals last_time, dt   *)
(* and fixed_time (durations and instants in nanoseconds), the exit flag   *)
(* of the event loop target (elwt), whether the loop has ended, the event  *)
(* delivered last and the game handlers called for it (calls), the number  *)
(* of fixed_update calls so far (n_fixed), the sum of the dt of the        *)
(* AboutToWait steps run so far (sum_dt), and whether a game handler was   *)
(* called for an event delivered after exit was requested (late), and the *)
(* number of iterations the event loop has started (frames).               *)
(***************************************************************************)
VARIABLES pc, ra, rb, x, y, z, pt, xy, yz, xy_z, x_yz, out_x, out_xy,
          xyx, out_y, out_x_y, out_xyx, out_rt, out_rt_xy,
          rev, nz, dir_x, dir_z, out_z, res,
          last_time, dt, fixed_time, exiting, ended, event, calls, n_fixed, sum_dt, late, frames

\* further results of Spec: (x * y) * x and the points the motors give
applyvars == << xyx, out_y, out_x_y, out_xyx, out_rt, out_rt_xy >>

\* results of the operations on one motor
unaryvars == << rev, nz, dir_x, dir_z, out_z, res >>

\* the event loop
loopvars ==
  << last_time, dt, fixed_time, exiting, ended, event, calls, n_fixed, sum_dt, late, frames >>

vars ==
  << pc, ra, rb, x, y, z, pt, xy, yz, xy_z, x_yz, out_x, out_xy,
     applyvars, unaryvars, loopvars >>

NoRecipe == [ kind |-> "none", arg |-> << >> ]

\* no Point::transform call has been made
NoCall == [ kind |-> "none" ]

\* before Apply
ApplyIdle ==
  /\ xyx = IDENTITY
  /\ out_y = ZeroOffset /\ out_x_y = ZeroOffset /\ out_xyx = ZeroOffset
  /\ out_rt = ZeroOffset /\ out_rt_xy = ZeroOffset

\* before any operation on one motor
UnaryIdle ==
  /\ rev = IDENTITY /\ nz = IDENTITY
  /\ dir_x = ZeroOffset /\ dir_z = ZeroOffset /\ out_z = ZeroOffset
  /\ res = NoCall

\* main before event_loop.run: the durations are Duration::ZERO
LoopIdle ==
  /\ last_time = 0 /\ dt = 0 /\ fixed_time = 0
  /\ exiting = FALSE /\ ended = FALSE
  /\ event = "none" /\ calls = << >> /\ n_fixed = 0 /\ sum_dt = 0 /\ late = FALSE
  /\ frames = 0

(***************************************************************************)
(* Spec: two motors are made by the constructors and composed, and the     *)
(* motors x, y, x * y, (x * y) * x, x * !x and (x * y) * !(x * y)          *)
(* are applied to a point.                                                 *)
(***************************************************************************)
Init ==
  /\ pc = "new"
  /\ ra \in Recipes
  /\ rb \in Recipes
  /\ pt = ZeroOffset
  /\ x = IDENTITY /\ y = IDENTITY /\ z = IDENTITY
  /\ xy = IDENTITY /\ yz = IDENTITY /\ xy_z = IDENTITY /\ x_yz = IDENTITY
  /\ out_x = ZeroOffset /\ out_xy = ZeroOffset
  /\ ApplyIdle /\ UnaryIdle /\ LoopIdle

Build ==
  /\ pc = "new"
  /\ x' = MakeRotor(ra)
  /\ y' = MakeRotor(rb)
  /\ pc' = "built"
  /\ UNCHANGED << ra, rb, z, pt, xy, yz, xy_z, x_yz, out_x, out_xy >>
  /\ UNCHANGED << applyvars, unaryvars, loopvars >>

Compose ==
  /\ pc = "built"
  /\ LET product == Mul(x, y)
     IN  xy' = product /\ xyx' = Mul(product, x)
  /\ pc' = "composed"
  /\ UNCHANGED << ra, rb, x, y, z, pt, yz, xy_z, x_yz, out_x, out_xy >>
  /\ UNCHANGED << out_y, out_x_y, out_xyx, out_rt, out_rt_xy, unaryvars, loopvars >>

Apply ==
  /\ pc = "composed"
  /\ \E point \in Points :
       /\ pt' = point
       /\ out_x' = transform(x, point)
       /\ out_xy' = transform(xy, point)
       /\ LET moved == transform(y, point)
          IN  out_y' = moved /\ out_x_y' = transform(x, moved)
       /\ out_xyx' = transform(xyx, point)
       /\ out_rt' = transform(Mul(x, Not(x)), point)
       /\ out_rt_xy' = transform(Mul(xy, Not(xy)), point)
  /\ pc' = "done"
  /\ UNCHANGED << ra, rb, x, y, z, xy, yz, xy_z, x_yz, xyx, unaryvars, loopvars >>

Next == Build \/ Compose \/ Apply

Spec == Init /\ [][Next]_vars

(***************************************************************************)
(* SpecMul and SpecAssoc: the product on motors with integer components.   *)
(* MulInner forms x * y and y * z, MulOuter forms (x * y) * z and          *)
(* x * (y * z).                                                            *)
(***************************************************************************)
InitResults ==
  /\ pc = "operands"
  /\ ra = NoRecipe /\ rb = NoRecipe
  /\ pt = ZeroOffset
  /\ xy = IDENTITY /\ yz = IDENTITY /\ xy_z = IDENTITY /\ x_yz = IDENTITY
  /\ out_x = ZeroOffset /\ out_xy = ZeroOffset
  /\ ApplyIdle /\ UnaryIdle /\ LoopIdle

InitMul == InitResults /\ x \in IntMotors /\ y \in IntMotors /\ z = IDENTITY

InitAssoc ==
  /\ InitResults
  /\ x \in UnitBlades \cup DenseMotors
  /\ y \in UnitBlades \cup DenseMotors
  /\ z \in UnitBlades \cup DenseMotors

MulInner ==
  /\ pc = "operands"
  /\ xy' = Mul(x, y)
  /\ yz' = Mul(y, z)
  /\ pc' = "inner"
  /\ UNCHANGED << ra, rb, x, y, z, pt, xy_z, x_yz, out_x, out_xy >>
  /\ UNCHANGED << applyvars, unaryvars, loopvars >>

MulOuter ==
  /\ pc = "inner"
  /\ xy_z' = Mul(xy, z)
  /\ x_yz' = Mul(x, yz)
  /\ pc' = "outer"
  /\ UNCHANGED << ra, rb, x, y, z, pt, xy, yz, out_x, out_xy >>
  /\ UNCHANGED << applyvars, unaryvars, loopvars >>

NextMul == MulInner \/ MulOuter

SpecMul == InitMul /\ [][NextMul]_vars

SpecAssoc == InitAssoc /\ [][NextMul]_vars

(***************************************************************************)
(* SpecUnary: the operations on one motor.  x is the motor; z has the      *)
(* fields of x except the eight e0-bearing ones, which are those of y.     *)
(* Reverse forms !x, Direct applies transform_direction of x and of z to a *)
(* direction, Move applies transform of z to the same 4-vector, and        *)
(* PointTransform calls Point::transform.                                  *)
(***************************************************************************)
E0Fields == { "e01", "e02", "e03", "e04", "e0123", "e0124", "e0134", "e0234" }

WithE0(a, b) == [ f \in FieldSet |-> IF f \in E0Fields THEN b[f] ELSE a[f] ]

Translations == { translation(offset) : offset \in Offsets }

UnaryMotors == UnitBlades \cup DenseMotors \cup { MakeRotor(recipe) : recipe \in Recipes }

E0Donors ==
  { IDENTITY, ZeroRotor, translation(CameraStart) } \cup DenseMotors \cup
  { Blade(f, One) : f \in E0Fields }

InitUnary ==
  /\ pc = "operand"
  /\ ra = NoRecipe /\ rb = NoRecipe
  /\ x \in UnaryMotors
  /\ y \in E0Donors
  /\ z = WithE0(x, y)
  /\ pt = ZeroOffset
  /\ xy = IDENTITY /\ yz = IDENTITY /\ xy_z = IDENTITY /\ x_yz = IDENTITY
  /\ out_x = ZeroOffset /\ out_xy = ZeroOffset
  /\ ApplyIdle /\ UnaryIdle /\ LoopIdle

Reverse ==
  /\ pc = "operand"
  /\ rev' = Not(x)
  /\ pc' = "reversed"
  /\ UNCHANGED << ra, rb, x, y, z, pt, xy, yz, xy_z, x_yz, out_x, out_xy >>
  /\ UNCHANGED << nz, dir_x, dir_z, out_z, res, applyvars, loopvars >>

Direct ==
  /\ pc = "operand"
  /\ \E normal \in Points :
       /\ pt' = normal
       /\ dir_x' = transform_direction(x, normal)
       /\ dir_z' = transform_direction(z, normal)
  /\ pc' = "directed"
  /\ UNCHANGED << ra, rb, x, y, z, xy, yz, xy_z, x_yz, out_x, out_xy >>
  /\ UNCHANGED << rev, nz, out_z, res, applyvars, loopvars >>

Move ==
  /\ pc = "directed"
  /\ out_z' = transform(z, pt)
  /\ pc' = "moved"
  /\ UNCHANGED << ra, rb, x, y, z, pt, xy, yz, xy_z, x_yz, out_x, out_xy >>
  /\ UNCHANGED << rev, nz, dir_x, dir_z, res, applyvars, loopvars >>

PointTransform ==
  /\ pc = "operand"
  /\ \E point \in Points :
       /\ pt' = point
       /\ res' = Point_transform(from_cartesian(point[1], point[2], point[3], point[4]), x)
  /\ pc' = "called"
  /\ UNCHANGED << ra, rb, x, y, z, xy, yz, xy_z, x_yz, out_x, out_xy >>
  /\ UNCHANGED << rev, nz, dir_x, dir_z, out_z, applyvars, loopvars >>

NextUnary == Reverse \/ Direct \/ Move \/ PointTransform

SpecUnary == InitUnary /\ [][NextUnary]_vars

(***************************************************************************)
(* SpecNorm: normalized.  x is one of RawMotors, or a motor of magnitude 0, *)
(* which is one whose fields outside the e0-bearing ones are all 0.        *)
(* Normalize forms x.normalized() and Use applies the motor it returned to *)
(* a point.                                                                *)
(***************************************************************************)
ZeroMagnitudeMotors ==
  { ZeroRotor } \cup
  { Blade(f, Int2F32(v)) : f \in E0Fields, v \in (-MaxVal..MaxVal) \ {0} } \cup
  { WithE0(ZeroRotor, d) : d \in DenseMotors }

NormInputs == ZeroMagnitudeMotors \cup RawMotors

InitNorm ==
  /\ pc = "operand"
  /\ ra = NoRecipe /\ rb = NoRecipe
  /\ x \in NormInputs
  /\ y = IDENTITY /\ z = IDENTITY
  /\ pt = ZeroOffset
  /\ xy = IDENTITY /\ yz = IDENTITY /\ xy_z = IDENTITY /\ x_yz = IDENTITY
  /\ out_x = ZeroOffset /\ out_xy = ZeroOffset
  /\ ApplyIdle /\ UnaryIdle /\ LoopIdle

Normalize ==
  /\ pc = "operand"
  /\ nz' = normalized(x)
  /\ pc' = "normalized"
  /\ UNCHANGED << ra, rb, x, y, z, pt, xy, yz, xy_z, x_yz, out_x, out_xy >>
  /\ UNCHANGED << rev, dir_x, dir_z, out_z, res, applyvars, loopvars >>

Use ==
  /\ pc = "normalized"
  /\ \E point \in Points :
       /\ pt' = point
       /\ out_z' = transform(nz, point)
  /\ pc' = "used"
  /\ UNCHANGED << ra, rb, x, y, z, xy, yz, xy_z, x_yz, out_x, out_xy >>
  /\ UNCHANGED << rev, nz, dir_x, dir_z, res, applyvars, loopvars >>

NextNorm == Normalize \/ Use

SpecNorm == InitNorm /\ [][NextNorm]_vars

(***************************************************************************)
(* SpecLoop: the closure main gives to event_loop.run, one action per      *)
(* event it matches.  The event loop delivers the events of one iteration  *)
(* in the order NewEvents, window and device events, AboutToWait; when     *)
(* exit has been requested it starts no new iteration and delivers         *)
(* LoopExiting last.  Instants and durations are whole nanoseconds.        *)
(***************************************************************************)
NanosPerSecond == 1000000000

\* let ts = Duration::from_secs(1) / 100
ts == NanosPerSecond \div 100

\* what the clock can have advanced by between two readings of
\* Instant::now(), in nanoseconds: nothing, 1 ns, a multiple of ts and 1 ns
\* less and more than it, and a slow frame of more than SlowTicks * ts
Elapsed ==
  { e \in { k * ts + j : k \in 0..MaxTicks, j \in { -1, 0, 1 } } : e >= 0 } \cup
  { SlowTicks * ts + ts \div 4 }

\* the handlers of Game whose body ends in Ok(()) and has no other exit
Infallible == { "resize", "scroll", "update", "fixed_update" }

\* what a handler of Game can return
Outcomes(handler) == IF handler \in Infallible THEN { "Ok" } ELSE { "Ok", "Err" }

\* the iteration of the while loop at which fixed_update returns Err, 0 for
\* none, when the loop starts with fixed_time = fixed
FailPoints(fixed) ==
  IF "Err" \in Outcomes("fixed_update") THEN 0..(fixed \div ts) ELSE { 0 }

\* the while loop with the guard fixed_time > ts
RECURSIVE FixedLoop_StrictGuard(_, _, _)
FixedLoop_StrictGuard(fixed, n, bad) ==
  IF fixed > ts
  THEN IF bad = n + 1
       THEN [ fixed_time |-> fixed, n |-> n + 1, err |-> TRUE ]
       ELSE FixedLoop_StrictGuard(fixed - ts, n + 1, bad)
  ELSE [ fixed_time |-> fixed, n |-> n, err |-> FALSE ]

\* while fixed_time >= ts { game.fixed_update(ts); fixed_time -= ts }: the
\* value of fixed_time it ends with, the number n of fixed_update calls made
\* and whether the last of them returned Err (it then returns at once)
RECURSIVE FixedLoop(_, _, _)
FixedLoop(fixed, n, bad) ==
  IF fixed >= ts
  THEN IF bad = n + 1
       THEN [ fixed_time |-> fixed, n |-> n + 1, err |-> TRUE ]
       ELSE FixedLoop(fixed - ts, n + 1, bad)
  ELSE [ fixed_time |-> fixed, n |-> n, err |-> FALSE ]

\* an iteration of the event loop has begun and its AboutToWait is to come
InIteration == ~ended /\ event \notin { "none", "AboutToWait" }

algebravars ==
  << pc, ra, rb, x, y, z, pt, xy, yz, xy_z, x_yz, out_x, out_xy, applyvars, unaryvars >>

InitLoop ==
  /\ pc = "loop"
  /\ ra = NoRecipe /\ rb = NoRecipe
  /\ x = IDENTITY /\ y = IDENTITY /\ z = IDENTITY
  /\ pt = ZeroOffset
  /\ xy = IDENTITY /\ yz = IDENTITY /\ xy_z = IDENTITY /\ x_yz = IDENTITY
  /\ out_x = ZeroOffset /\ out_xy = ZeroOffset
  /\ ApplyIdle /\ UnaryIdle /\ LoopIdle

\* Event::NewEvents(cause): StartCause::Init reads the clock into last_time;
\* every cause then reads the clock and sets dt and last_time
NewEvents ==
  /\ ~ended /\ ~exiting /\ ~InIteration
  /\ frames < MaxFrames
  /\ \E cause \in { "Init", "Poll", "WaitCancelled" }, first \in Elapsed, gap \in Elapsed :
       LET base == IF cause = "Init" THEN last_time + first ELSE last_time
           time == base + gap
       IN  /\ dt' = time - base
           /\ last_time' = time
  /\ event' = "NewEvents" /\ calls' = << >>
  /\ frames' = frames + 1
  /\ UNCHANGED << fixed_time, exiting, ended, n_fixed, sum_dt, late, algebravars >>

\* an event whose arm calls one handler of Game and, on Err, elwt.exit();
\* a guarded arm is skipped when elwt.exiting()
Deliver(name, handler, guarded) ==
  /\ InIteration
  /\ event' = name
  /\ IF guarded /\ exiting
     THEN calls' = << >> /\ UNCHANGED << exiting, late >>
     ELSE \E result \in Outcomes(handler) :
            /\ calls' = << handler >>
            /\ exiting' = (exiting \/ result = "Err")
            /\ late' = (late \/ exiting)
  /\ UNCHANGED << last_time, dt, fixed_time, ended, n_fixed, sum_dt, frames, algebravars >>

\* WindowEvent::CloseRequested | WindowEvent::Destroyed
CloseRequested ==
  /\ InIteration
  /\ event' = "CloseRequested" /\ calls' = << >>
  /\ exiting' = TRUE
  /\ UNCHANGED << last_time, dt, fixed_time, ended, n_fixed, sum_dt, late, frames, algebravars >>

Resized == Deliver("Resized", "resize", TRUE)

RedrawRequested == Deliver("RedrawRequested", "draw", TRUE)

KeyboardInput == Deliver("KeyboardInput", "input", TRUE)

\* DeviceEvent::MouseMotion: the arm has no guard
MouseMotion == Deliver("MouseMotion", "mouse_input", FALSE)

\* DeviceEvent::MouseWheel: the arm has no guard, and it matches a delta of
\* MouseScrollDelta::LineDelta only; with a PixelDelta the event falls to
\* the arm _ => {}, which calls nothing
MouseWheel ==
  \E delta \in { "LineDelta", "PixelDelta" } :
    IF delta = "LineDelta"
    THEN Deliver("MouseWheel", "scroll", FALSE)
    ELSE /\ InIteration
         /\ event' = "MouseWheel" /\ calls' = << >>
         /\ UNCHANGED << last_time, dt, fixed_time, exiting, ended, n_fixed, sum_dt, late >>
         /\ UNCHANGED << frames, algebravars >>

\* Event::AboutToWait if !elwt.exiting()
AboutToWait ==
  /\ InIteration
  /\ event' = "AboutToWait"
  /\ IF exiting
     THEN calls' = << >> /\ UNCHANGED << fixed_time, exiting, n_fixed, sum_dt >>
     ELSE \E result \in Outcomes("update"), bad \in FailPoints(fixed_time + dt) :
            IF result = "Err"
            THEN /\ calls' = << "update" >>
                 /\ exiting' = TRUE
                 /\ UNCHANGED << fixed_time, n_fixed, sum_dt >>
            ELSE LET run == FixedLoop(fixed_time + dt, 0, bad)
                 IN  /\ calls' = << "update" >> \o [ i \in 1..run.n |-> "fixed_update" ]
                     /\ fixed_time' = run.fixed_time
                     /\ n_fixed' = n_fixed + run.n
                     /\ sum_dt' = sum_dt + dt
                     /\ exiting' = run.err
  /\ UNCHANGED << last_time, dt, ended, late, frames, algebravars >>

\* Event::LoopExiting, delivered last once exit was requested
LoopExiting ==
  /\ ~ended /\ exiting
  /\ ended' = TRUE
  /\ event' = "LoopExiting" /\ calls' = << >>
  /\ UNCHANGED << last_time, dt, fixed_time, exiting, n_fixed, sum_dt, late, frames, algebravars >>

NextLoop ==
  \/ NewEvents
  \/ CloseRequested
  \/ Resized
  \/ RedrawRequested
  \/ KeyboardInput
  \/ MouseMotion
  \/ MouseWheel
  \/ AboutToWait
  \/ LoopExiting

SpecLoop == InitLoop /\ [][NextLoop]_vars

(***************************************************************************)
(* The Clifford product the claims refer to, from the rules alone:         *)
(* e0*e0 = 0, ei*ei = 1 for i in 1..4, ei*ej = -ej*ei for i # j.           *)
(* A blade is the word of its basis vectors in increasing order; a product *)
(* of basis vectors is brought to that form by swapping neighbours that    *)
(* are out of order (a change of sign) and contracting equal neighbours.   *)
(***************************************************************************)
BladeWord(f) ==
  CASE f = "s" -> << >>
    [] f = "e01" -> << 0, 1 >>
    [] f = "e02" -> << 0, 2 >>
    [] f = "e03" -> << 0, 3 >>
    [] f = "e04" -> << 0, 4 >>
    [] f = "e12" -> << 1, 2 >>
    [] f = "e13" -> << 1, 3 >>
    [] f = "e14" -> << 1, 4 >>
    [] f = "e23" -> << 2, 3 >>
    [] f = "e24" -> << 2, 4 >>
    [] f = "e34" -> << 3, 4 >>
    [] f = "e0123" -> << 0, 1, 2, 3 >>
    [] f = "e0124" -> << 0, 1, 2, 4 >>
    [] f = "e0134" -> << 0, 1, 3, 4 >>
    [] f = "e0234" -> << 0, 2, 3, 4 >>
    [] f = "e1234" -> << 1, 2, 3, 4 >>

BasisSquare(i) == IF i = 0 THEN 0 ELSE 1

RECURSIVE ReduceWord(_, _)
ReduceWord(coef, w) ==
  IF \A k \in 1..(Len(w) - 1) : w[k] < w[k + 1]
  THEN [ coef |-> coef, word |-> w ]
  ELSE LET k == CHOOSE j \in 1..(Len(w) - 1) :
                  /\ w[j] >= w[j + 1]
                  /\ \A i \in 1..(j - 1) : w[i] < w[i + 1]
       IN  IF w[k] = w[k + 1]
           THEN ReduceWord(coef * BasisSquare(w[k]),
                           SubSeq(w, 1, k - 1) \o SubSeq(w, k + 2, Len(w)))
           ELSE ReduceWord(-coef, [ w EXCEPT ![k] = w[k + 1], ![k + 1] = w[k] ])

\* blade f1 times blade f2 is BladeProduct[f1][f2].coef times the blade of that word
BladeProduct ==
  [ f1 \in FieldSet |-> [ f2 \in FieldSet |-> ReduceWord(1, BladeWord(f1) \o BladeWord(f2)) ] ]

\* the blade f2 for which f1 * f2 is a multiple of f
Partner ==
  [ f \in FieldSet |->
      [ f1 \in FieldSet |-> CHOOSE f2 \in FieldSet : BladeProduct[f1][f2].word = BladeWord(f) ] ]

\* the integer an f32 with no fraction bits stands for
F32ToInt(v) == (IF v[1] = 1 THEN -1 ELSE 1) * v[2] * Pow2(v[3])

RECURSIVE IntSum(_)
IntSum(terms) == IF terms = << >> THEN 0 ELSE Head(terms) + IntSum(Tail(terms))

\* the coefficient of the blade f in the product of a and b, motors with
\* integer components, computed in the integers
CliffordCoefficient(a, b, f) ==
  Int2F32(IntSum([ n \in 1..Len(Fields) |->
                     LET f1 == Fields[n]
                         f2 == Partner[f][f1]
                     IN  BladeProduct[f1][f2].coef * F32ToInt(a[f1]) * F32ToInt(b[f2]) ]))

(***************************************************************************)
(* Comparing f32 values: == of f32 (REq), field by field and coordinate by *)
(* coordinate, and equality within a tolerance of 1e-5, relative to the    *)
(* greater of the two magnitudes when that exceeds 1.                      *)
(***************************************************************************)
NonZero(v) == v[2] # 0

SameRotor(a, b) == \A f \in FieldSet : REq(a[f], b[f])

SameVec(p, q) == \A n \in 1..4 : REq(p[n], q[n])

Tolerance == Rat(1, 100000)

RMax(v, w) == IF RLess(v, w) THEN w ELSE v

Near(v, w) ==
  REq(v, w) \/
  RLess(RAbs(RSub(v, w)), RMul(Tolerance, RMax(One, RMax(RAbs(v), RAbs(w)))))

NearRotor(a, b) == \A f \in FieldSet : Near(a[f], b[f])

NearVec(p, q) == \A n \in 1..4 : Near(p[n], q[n])

Computed == pc \in { "inner", "outer" }

\* C1: each field of x * y is the coefficient of its basis blade in the Clifford
\* product of x and y, for all motors x and y with integer components.
ClaimC1 ==
  Computed => \A f \in FieldSet : REq(xy[f], CliffordCoefficient(x, y, f))

\* x and y with all 16 fields populated, whose product depends on the order
WitnessC1 ==
  /\ Computed
  /\ x \in DenseMotors /\ y \in DenseMotors
  /\ \A f \in FieldSet : NonZero(x[f]) \/ NonZero(y[f])
  /\ ~SameRotor(xy, Mul(y, x))
  /\ NonZero(xy.e0123)

\* C3: IDENTITY is a two-sided identity of the product, in all 16 fields.
ClaimC3 ==
  Computed =>
    /\ y = IDENTITY => SameRotor(xy, x)
    /\ x = IDENTITY => SameRotor(xy, y)

\* IDENTITY on the right of a motor with no field 0 or equal to IDENTITY's
WitnessC3 ==
  /\ Computed
  /\ y = IDENTITY
  /\ x \in DenseMotors
  /\ Cardinality({ f \in FieldSet : NonZero(x[f]) }) >= 8

\* IDENTITY on the left of a motor that is not IDENTITY
WitnessC3Left ==
  Computed /\ x = IDENTITY /\ y \in DenseMotors /\ NonZero(y.e0134)

\* C2: the product is associative: (x * y) * z = x * (y * z) field by field,
\* for motors with integer components, on which no f32 operation of the
\* two products rounds.
ClaimC2 ==
  pc = "outer" => SameRotor(xy_z, x_yz)

\* three motors that do not commute, with a product that is not 0
WitnessC2 ==
  /\ pc = "outer"
  /\ x \in DenseMotors /\ y \in DenseMotors /\ z \in DenseMotors
  /\ ~SameRotor(xy, Mul(y, x)) /\ ~SameRotor(yz, Mul(z, y))
  /\ ~SameRotor(xy_z, ZeroRotor)

(***************************************************************************)
(* Claims about the constructors and the point transform, under Spec.      *)
(***************************************************************************)
Composed == pc = "composed"

Done == pc = "done"

(***************************************************************************)
(* A recipe makes a pure rotation when it is rotation_xy(angle), or        *)
(* normalized of u + v * e_ij for one rotation bivector e_ij.  Rigid       *)
(* motions: translations and rotations in one coordinate plane.            *)
(***************************************************************************)
RawField(raw) == CHOOSE f \in FieldSet \ { "s" } : NonZero(raw[f])

PureRotation(recipe) ==
  \/ recipe.kind = "rotation_xy"
  \/ recipe.kind = "normalized" /\ RawField(recipe.arg) \in RotationFields

Rigid(recipe) == recipe.kind = "translation" \/ PureRotation(recipe)

\* a motor of the point p, in the layout of Point::from_cartesian
PointMotor(p) ==
  LET P == from_cartesian(p[1], p[2], p[3], p[4])
  IN  [ ZeroRotor EXCEPT !.e0123 = P.e0123, !.e0124 = P.e0124, !.e0134 = P.e0134,
                         !.e0234 = P.e0234, !.e1234 = P.e1234 ]

Sandwich(a, p) == Mul(Mul(a, PointMotor(p)), Not(a))

\* the point of a motor P and its weight
Cartesian(P) == << P.e0123, P.e0124, P.e0134, P.e0234 >>

VAdd(p, d) == [ n \in 1..4 |-> RAdd(p[n], d[n]) ]

\* C4: for x and y each a translation or a rotation in one coordinate plane
\* (those built by Rotor::translation and Rotor::rotation_xy among them),
\* transform by x and by x * y gives the point fields of the sandwich
\* product a * P * !a, whose e1234 field is 1; the two f32 computations
\* round differently, and they agree within the tolerance.
ClaimC4 ==
  (Done /\ Rigid(ra) /\ Rigid(rb)) =>
    LET Px == Sandwich(x, pt)
        Pxy == Sandwich(xy, pt)
    IN  /\ NearVec(Cartesian(Px), out_x) /\ Near(Px.e1234, One)
        /\ NearVec(Cartesian(Pxy), out_xy) /\ Near(Pxy.e1234, One)

\* a rotation composed with a translation, applied to a point off the axes
WitnessC4 ==
  /\ Done
  /\ ra.kind = "rotation_xy" /\ rb.kind = "translation"
  /\ NonZero(x.s) /\ NonZero(x.e12) /\ rb.arg = CameraStart
  /\ pt = GenericPoint
  /\ \A n \in 1..4 : ~Near(out_xy[n], pt[n])
  /\ NonZero(xy.e0123)

\* C5: translation(d).transform(p) = p + d; the zero offset returns p.
ClaimC5 ==
  (Done /\ ra.kind = "translation") =>
    /\ \A n \in 1..4 : REq(out_x[n], RAdd(pt[n], ra.arg[n]))
    /\ ra.arg = ZeroOffset => (SameRotor(x, IDENTITY) /\ SameVec(out_x, pt))

\* an offset with four coordinates that are not 0, and a point off the axes
WitnessC5 ==
  /\ Done /\ ra.kind = "translation" /\ ra.arg = CameraStart /\ pt = GenericPoint
  /\ ~SameVec(out_x, pt)

WitnessC5Zero ==
  Done /\ ra.kind = "translation" /\ ra.arg = ZeroOffset /\ pt = GenericPoint

\* C6: translation(d1) * translation(d2) = translation(d1 + d2) in all 16
\* fields, and it moves the origin to d1 + d2.
ClaimC6 ==
  (ra.kind = "translation" /\ rb.kind = "translation") =>
    /\ Composed => SameRotor(xy, translation(VAdd(ra.arg, rb.arg)))
    /\ (Done /\ pt = ZeroOffset) => SameVec(out_xy, VAdd(ra.arg, rb.arg))

\* the offsets [1,0,0,0] and [0,2,0,0] move the origin to [1,2,0,0]
WitnessC6 ==
  /\ Done
  /\ SameRotor(xy, translation(<< One, Two, Zero, Zero >>))
  /\ ra.kind = "translation" /\ ra.arg = << One, Zero, Zero, Zero >>
  /\ rb.kind = "translation" /\ rb.arg = << Zero, Two, Zero, Zero >>
  /\ pt = ZeroOffset
  /\ SameVec(out_xy, << One, Two, Zero, Zero >>)

(***************************************************************************)
(* The sine and cosine of the whole angle of a rotation recipe: of the     *)
(* angle given to rotation_xy, and for normalized of u + v * e_ij, where   *)
(* cos(angle/2) : sin(angle/2) = u : v, by the double angle formulas.      *)
(***************************************************************************)
RSquare(v) == RMul(v, v)

RecipeSinCos(recipe) ==
  IF recipe.kind = "rotation_xy"
  THEN SinCos(recipe.arg)
  ELSE LET u == F32ToInt(recipe.arg.s)
           v == F32ToInt(recipe.arg[RawField(recipe.arg)])
       IN  << Rat(2 * u * v, u * u + v * v), Rat(u * u - v * v, u * u + v * v) >>

\* p turned by the angle with sine sn and cosine cs in the plane of the
\* coordinates i and j, the other coordinates kept
Turned(p, i, j, sn, cs) ==
  [ n \in 1..4 |->
      IF n = i THEN RSub(RMul(cs, p[i]), RMul(sn, p[j]))
      ELSE IF n = j THEN RAdd(RMul(sn, p[i]), RMul(cs, p[j]))
      ELSE p[n] ]

Planes == { ij \in (1..4) \X (1..4) : ij[1] # ij[2] }

NormSquared(p) == RSum([ n \in 1..4 |-> RSquare(p[n]) ])

HalfTurn(recipe) == recipe.kind = "rotation_xy" /\ recipe.arg \in { Pi, RNeg(Pi) }

\* C7: a pure rotation motor (s = cos(angle/2), one rotation bivector =
\* sin(angle/2)) returns two coordinates of every point unchanged and turns
\* the other two by the whole angle, within the tolerance; within it the
\* sum of the squares is preserved and the angle pi negates the two
\* coordinates.
ClaimC7 ==
  (Done /\ PureRotation(ra)) =>
    LET sn == RecipeSinCos(ra)[1]
        cs == RecipeSinCos(ra)[2]
    IN  /\ \E ij \in Planes :
             /\ \A n \in (1..4) \ { ij[1], ij[2] } : REq(out_x[n], pt[n])
             /\ NearVec(out_x, Turned(pt, ij[1], ij[2], sn, cs))
             /\ (pt = GenericPoint) =>
                  \A p \in Points : NearVec(transform(x, p), Turned(p, ij[1], ij[2], sn, cs))
             /\ HalfTurn(ra) => \A n \in { ij[1], ij[2] } : Near(out_x[n], RNeg(pt[n]))
        /\ Near(NormSquared(out_x), NormSquared(pt))

\* rotation_xy by an angle that is no multiple of a right angle turns a
\* point off the axes
WitnessC7 ==
  /\ Done
  /\ ra.kind = "rotation_xy" /\ ra.arg = One
  /\ pt = GenericPoint
  /\ ~NearVec(out_x, pt)

\* rotation_xy by pi negates two coordinates, within the tolerance and not
\* exactly
WitnessC7Pi ==
  /\ Done
  /\ ra.kind = "rotation_xy" /\ ra.arg = Pi
  /\ pt = GenericPoint
  /\ Cardinality({ n \in 1..4 : Near(out_x[n], RNeg(pt[n])) }) = 2
  /\ \E n \in 1..4 : Near(out_x[n], RNeg(pt[n])) /\ ~REq(out_x[n], RNeg(pt[n]))

\* C8: for rotations x and y in the same plane, x * y has s = c1*c2 - s1*s2,
\* e12 = c1*s2 + s1*c2 and every other field 0, and x * y = y * x; within
\* the tolerance it is the rotation by the sum of the angles.
ClaimC8 ==
  (Composed /\ ra.kind = "rotation_xy" /\ rb.kind = "rotation_xy") =>
    /\ REq(xy.s, RSub(RMul(x.s, y.s), RMul(x.e12, y.e12)))
    /\ REq(xy.e12, RAdd(RMul(x.s, y.e12), RMul(x.e12, y.s)))
    /\ \A f \in FieldSet \ { "s", "e12" } : REq(xy[f], Zero)
    /\ NearRotor(xy, rotation_xy(RAdd(ra.arg, rb.arg)))
    /\ SameRotor(xy, Mul(y, x))

\* two rotations by different angles that are no multiples of a right angle
WitnessC8 ==
  /\ Composed
  /\ ra.kind = "rotation_xy" /\ rb.kind = "rotation_xy"
  /\ ra.arg = One /\ rb.arg = Rat(-1, 2)
  /\ NonZero(xy.s) /\ NonZero(xy.e12)
  /\ ~Near(xy.s, x.s) /\ ~Near(xy.e12, x.e12)

UnitMagnitude(a) == Near(magnitude_squared(a), One)

IsInverse(a, b) == NearRotor(Mul(a, b), IDENTITY) /\ NearRotor(Mul(b, a), IDENTITY)

\* C9 as stated: every motor with magnitude_squared 1 has its reverse as
\* inverse.  Both equalities are taken within the tolerance.
ClaimC9AsStated ==
  Composed =>
    /\ UnitMagnitude(x) => IsInverse(Not(x), x)
    /\ UnitMagnitude(xy) => IsInverse(Not(xy), xy)

\* C9: for a translation, a rotation in one coordinate plane, or a product of
\* two of them, magnitude_squared is 1 and the reverse is the inverse,
\* within the tolerance.
ClaimC9 ==
  (Composed /\ Rigid(ra) /\ Rigid(rb)) =>
    /\ UnitMagnitude(x) /\ IsInverse(Not(x), x)
    /\ UnitMagnitude(xy) /\ IsInverse(Not(xy), xy)

\* a rotation composed with a translation
WitnessC9 ==
  /\ Composed
  /\ ra.kind = "rotation_xy" /\ rb.kind = "translation"
  /\ ra.arg = One /\ rb.arg = CameraStart
  /\ NonZero(xy.e0123) /\ NonZero(xy.e01) /\ NonZero(xy.e12)
  /\ ~NearRotor(Not(xy), xy)

\* C10 as stated: the product of two motors of magnitude_squared 1 has
\* magnitude_squared 1.  Both are taken within the tolerance.
ClaimC10AsStated ==
  (Composed /\ UnitMagnitude(x) /\ UnitMagnitude(y)) => UnitMagnitude(xy)

\* C10: for x and y each a translation or a rotation in one coordinate
\* plane, x, y, x * y and the products of x * y with itself and with y * x
\* have magnitude_squared 1, within the tolerance.
ClaimC10 ==
  (Composed /\ Rigid(ra) /\ Rigid(rb)) =>
    /\ UnitMagnitude(x) /\ UnitMagnitude(y)
    /\ UnitMagnitude(xy)
    /\ UnitMagnitude(Mul(xy, xy))
    /\ UnitMagnitude(Mul(xy, Mul(y, x)))

\* two rotations in different planes, one of them from normalized
WitnessC10 ==
  /\ Composed
  /\ ra.kind = "rotation_xy" /\ ra.arg = One
  /\ rb.kind = "normalized" /\ NonZero(y.e13)
  /\ NonZero(xy.e23)
  /\ UnitMagnitude(xy)

(***************************************************************************)
(* Round trip through the reverse.                                         *)
(***************************************************************************)
\* C11 as stated: for every motor a with magnitude_squared(a) = 1 and every
\* point p, (a * !a).transform(p) = p.  Both are taken within the tolerance.
ClaimC11AsStated == Done /\ UnitMagnitude(x) => NearVec(out_rt, pt)

\* C11: for every motor a that is a translation, a rotation in one coordinate
\* plane or a product of two of them, magnitude_squared(a) = 1 and
\* (a * !a).transform(p) = p for every point p, within the tolerance.
ClaimC11 ==
  Done /\ Rigid(ra) /\ Rigid(rb) =>
    /\ UnitMagnitude(x) /\ NearVec(out_rt, pt)
    /\ UnitMagnitude(xy) /\ NearVec(out_rt_xy, pt)

WitnessC11 ==
  /\ Done /\ ra.kind = "rotation_xy" /\ rb.kind = "translation"
  /\ NonZero(x.e12) /\ NonZero(x.s) /\ rb.arg = CameraStart /\ pt = GenericPoint
  /\ NonZero(xy.e01) /\ NonZero(xy.e02)
  /\ NearVec(out_rt_xy, pt) /\ ~NearVec(out_xy, pt)

(***************************************************************************)
(* The direction transform.                                                *)
(***************************************************************************)
Directed == pc \in { "directed", "moved" }

\* C12: transform_direction does not depend on the e0-bearing fields: x and
\* z, which differ only in e01..e04 and e0123..e0234, send every direction
\* to the same direction; and a translation motor returns the direction it
\* is given.
ClaimC12 ==
  Directed => dir_x = dir_z /\ (x \in Translations => SameVec(dir_x, pt))

WitnessC12 ==
  /\ Directed /\ x \in DenseMotors /\ y \in DenseMotors
  /\ \A f \in E0Fields : ~REq(x[f], z[f])
  /\ pt = GenericPoint /\ dir_x = dir_z /\ ~SameVec(dir_x, pt)

WitnessC12Translation ==
  Directed /\ x = translation(CameraStart) /\ pt = GenericPoint /\ SameVec(dir_x, pt)

NoE0(a) == \A f \in E0Fields : IsZero(a[f])

\* C13: on a motor whose eight e0-bearing fields are 0, transform_direction
\* and transform give the same 4-vector.
ClaimC13 == pc = "moved" /\ NoE0(z) => SameVec(dir_z, out_z)

WitnessC13 ==
  /\ pc = "moved" /\ NoE0(z) /\ x \in DenseMotors /\ ~NoE0(x)
  /\ pt = GenericPoint /\ SameVec(dir_z, out_z) /\ ~SameVec(out_z, pt)

(***************************************************************************)
(* The reverse.                                                            *)
(***************************************************************************)
Grade2Fields == { "e01", "e02", "e03", "e04", "e12", "e13", "e14", "e23", "e24", "e34" }

\* C14: !a negates exactly the ten grade-2 fields of a and returns s and the
\* five grade-4 fields unchanged.
ClaimC14 ==
  pc = "reversed" =>
    \A f \in FieldSet : rev[f] = IF f \in Grade2Fields THEN RNeg(x[f]) ELSE x[f]

WitnessC14 ==
  /\ pc = "reversed" /\ x \in DenseMotors
  /\ NonZero(x.e01) /\ NonZero(x.e12) /\ NonZero(x.e0123) /\ NonZero(x.e1234)
  /\ rev.e01 = RNeg(x.e01) /\ rev.e12 = RNeg(x.e12)
  /\ rev.e0123 = x.e0123 /\ rev.e1234 = x.e1234

(***************************************************************************)
(* Point::transform.                                                       *)
(***************************************************************************)
\* C16: every call of Point::transform ends in the panic "not yet
\* implemented" and returns no Point.
ClaimC16 ==
  pc = "called" => res.kind = "panic" /\ res.message = "not yet implemented"

WitnessC16 ==
  /\ pc = "called" /\ x = translation(CameraStart) /\ pt = GenericPoint
  /\ res.kind = "panic"

(***************************************************************************)
(* normalized on a motor of magnitude 0.                                   *)
(***************************************************************************)
Normalized == pc \in { "normalized", "used" }

\* C15 as stated: normalized never returns a motor with a NaN or infinite
\* field; on a motor of magnitude 0 it fails and returns nothing.
ClaimC15AsStated ==
  Normalized => ~IsZero(magnitude(x)) /\ \A f \in FieldSet : IsFinite(nz[f])

\* what normalized returns for a motor of magnitude 0: NaN in every field
\* that is 0 and an infinity of its sign in every other field
NormalizedOfZeroMagnitude ==
  Normalized /\ IsZero(magnitude(x)) =>
    \A f \in FieldSet :
      nz[f] = IF NonZero(x[f]) THEN << x[f][1], 1, InfExp >> ELSE NaN

WitnessC15 ==
  /\ pc = "used" /\ x = Blade("e01", One) /\ IsZero(magnitude(x))
  /\ nz.e01 = Inf /\ IsNaN(nz.s) /\ IsNaN(nz.e1234)
  /\ pt = GenericPoint /\ \E n \in 1..4 : ~IsFinite(out_z[n])

(***************************************************************************)
(* Composition of motors is composition of transforms.                     *)
(***************************************************************************)
\* C17: for motors a and b that are translations, rotations in one plane or
\* products of them, and every point p, (a * b).transform(p) is
\* a.transform(b.transform(p)) within the tolerance: the right operand is
\* applied first.  Stated for a = x, b = y and for a = x * y, b = x.
ClaimC17 ==
  Done /\ Rigid(ra) /\ Rigid(rb) =>
    /\ NearVec(out_xy, out_x_y)
    /\ NearVec(out_xyx, transform(xy, out_x))

WitnessC17 ==
  /\ Done /\ ra.kind = "rotation_xy" /\ rb.kind = "translation"
  /\ NonZero(x.e12) /\ NonZero(x.s) /\ rb.arg = Axis(3, One) /\ pt = GenericPoint
  /\ NearVec(out_xy, out_x_y)
  /\ ~NearVec(out_xy, transform(y, out_x))

(***************************************************************************)
(* The plane of rotation_xy in the point layout [x, y, z, w].              *)
(***************************************************************************)
\* C18 as stated: rotation_xy(angle).transform(p) turns the coordinates at
\* indices 0 and 1 (x and y) of p by angle, in one sense or the other, and
\* returns the coordinates at indices 2 and 3 (z and w) unchanged.  The
\* turned coordinates are compared within the tolerance.
ClaimC18AsStated ==
  Done /\ ra.kind = "rotation_xy" =>
    LET sn == RecipeSinCos(ra)[1]
        cs == RecipeSinCos(ra)[2]
    IN  /\ REq(out_x[3], pt[3]) /\ REq(out_x[4], pt[4])
        /\ \/ NearVec(out_x, Turned(pt, 1, 2, sn, cs))
           \/ NearVec(out_x, Turned(pt, 2, 1, sn, cs))

\* what rotation_xy does: it turns the coordinates at indices 2 and 3 (z and
\* w) by angle and returns those at indices 0 and 1 (x and y) unchanged
RotationXYTurnsZW ==
  Done /\ ra.kind = "rotation_xy" =>
    /\ REq(out_x[1], pt[1]) /\ REq(out_x[2], pt[2])
    /\ NearVec(out_x, Turned(pt, 4, 3, RecipeSinCos(ra)[1], RecipeSinCos(ra)[2]))

WitnessC18 ==
  /\ Done /\ ra.kind = "rotation_xy" /\ ra.arg = One
  /\ pt = Axis(1, One) /\ SameVec(out_x, pt)

(***************************************************************************)
(* The event loop.                                                         *)
(***************************************************************************)
\* the AboutToWait step delivered last ran to its end without an error
StepCompleted == event = "AboutToWait" /\ ~exiting

\* C19: an AboutToWait step that completes without error calls game.update
\* exactly once, before every game.fixed_update, and calls nothing else;
\* after it fixed_time < ts; and ts * (number of fixed_update calls so far)
\* + fixed_time is the sum of the dt of the steps so far.
ClaimC19 ==
  /\ StepCompleted =>
       /\ Len(calls) >= 1 /\ calls[1] = "update"
       /\ \A i \in 2..Len(calls) : calls[i] = "fixed_update"
  /\ fixed_time < ts
  /\ ts * n_fixed + fixed_time = sum_dt

WitnessC19 ==
  /\ StepCompleted
  /\ calls = << "update", "fixed_update" >>
  /\ dt = ts - 1 /\ fixed_time = 0 /\ n_fixed = 2 /\ sum_dt = 2 * ts

\* C20 as stated: once exit has been requested no game handler is called
\* for any later event.
ClaimC20AsStated == ~late

\* what the guards of main do give: for an event delivered after exit was
\* requested only the two DeviceEvent arms, which have no guard, call a
\* handler
GuardedArmsStop ==
  [][exiting /\ calls' # << >> => event' \in { "MouseMotion", "MouseWheel" }]_vars

WitnessC20 ==
  /\ late /\ exiting /\ ~ended
  /\ event = "MouseWheel" /\ calls = << "scroll" >>

====
